---- MODULE Spec2Model ----
(***************************************************************************)
(* State-machine model of src/main.py: GameState, HistoryManager and the   *)
(* SimulatorApp handlers that mutate them (crafting, loot, run/chapter     *)
(* machine, hunts, field edits, snapshot load, undo/redo).                 *)
(*                                                                         *)
(* Representation.  Amounts of resources, consumables, drop tables and     *)
(* total_diamonds_gain are Python floats with at most two decimals in the  *)
(* source tables; they are kept as integers in hundredths (Amt(1) = 100).  *)
(* Notoriety, pages, counters and lengths are Python ints and are kept as  *)
(* integers.  An Optional value is None (the empty sequence) or Some(x).   *)
(* Text typed into an entry widget is a string drawn from Texts.           *)
(***************************************************************************)
EXTENDS Integers, Sequences, FiniteSets, TLC

Amt(n) == n * 100

None == << >>
Some(x) == << x >>

Max2(a, b) == IF a >= b THEN a ELSE b
Min2(a, b) == IF a <= b THEN a ELSE b

---------------------------------------------------------------------------
(* Core configuration, src/main.py:20-96 and 204-230                       *)

RESOURCE_KEYS ==
    <<"mallets", "T1 cheese", "T2 cheese", "T3 cheese", "Thread", "Machinery", "Diamond">>

CONSUMABLE_KEYS == <<"CC", "hooks", "Gold", "ME">>

BASE_GENRES == <<"Romance", "Adventure", "Comedy", "Tragedy", "Suspense">>

FANTASY_GENRE == "Fantasy"

CHAPTER_LENGTHS == <<10, 20, 30>>

TOTAL_CHAPTERS == 6

SeqToSet(q) == {q[i] : i \in 1..Len(q)}

ResourceSet == SeqToSet(RESOURCE_KEYS)
ConsumableSet == SeqToSet(CONSUMABLE_KEYS)
BaseGenreSet == SeqToSet(BASE_GENRES)
AllGenresSeq == BASE_GENRES \o <<FANTASY_GENRE>>
AllGenreSet == SeqToSet(AllGenresSeq)

CHEESE_HUNT_RULES ==
    [T1 |-> [resource |-> "T1 cheese", page_gain |-> 25,
             chapter_enemy |-> "T1 mouse",
             post_enemy |-> "Common Weaver - With T1 Cheese",
             post_fantasy_enemy |-> "Ultimate MythWeaver - With T1 Cheese",
             notoriety_gain |-> 25],
     T2 |-> [resource |-> "T2 cheese", page_gain |-> 50,
             chapter_enemy |-> "T2 mouse",
             post_enemy |-> "Common Weaver - With T2 Cheese",
             post_fantasy_enemy |-> "Ultimate MythWeaver - With T2 Cheese",
             notoriety_gain |-> 50],
     T3 |-> [resource |-> "T3 cheese", page_gain |-> 125,
             chapter_enemy |-> "T3 mouse",
             post_enemy |-> "Common Weaver - With T3 Cheese",
             post_fantasy_enemy |-> "Ultimate MythWeaver - With T3 Cheese",
             notoriety_gain |-> 125]]

CheeseTypes == DOMAIN CHEESE_HUNT_RULES

DEFAULT_ENEMY_DROPS ==
    ("T1 mouse" :> [Thread |-> 154, Gold |-> Amt(7500)]) @@
    ("T2 mouse" :> [Machinery |-> 243, Gold |-> Amt(16500)]) @@
    ("T3 mouse" :> [Gold |-> Amt(25000)]) @@
    ("Common Weaver - With T1 Cheese" :>
        [Gold |-> Amt(25000), mallets |-> 150, Thread |-> 154]) @@
    ("Common Weaver - With T2 Cheese" :>
        [Gold |-> Amt(25000), mallets |-> 150, Machinery |-> 243]) @@
    ("Common Weaver - With T3 Cheese" :>
        [Gold |-> Amt(25000), mallets |-> 150]) @@
    ("Ultimate MythWeaver - With T1 Cheese" :>
        [Gold |-> Amt(225000), Diamond |-> Amt(1), mallets |-> 230, Thread |-> 154]) @@
    ("Ultimate MythWeaver - With T2 Cheese" :>
        [Gold |-> Amt(225000), Diamond |-> Amt(1), mallets |-> 230, Machinery |-> 243]) @@
    ("Ultimate MythWeaver - With T3 Cheese" :>
        [Gold |-> Amt(225000), Diamond |-> Amt(1), mallets |-> 230])

(* Recipe amounts are whole units (Python ints), as in the source.         *)
RECIPES ==
    << [outputs |-> ("T1 cheese" :> 1), costs |-> ("hooks" :> 6) @@ ("Gold" :> 2000)],
       [outputs |-> ("T1 cheese" :> 2), costs |-> ("hooks" :> 6) @@ ("Gold" :> 16000)],
       [outputs |-> ("T2 cheese" :> 2),
        costs |-> ("T1 cheese" :> 12) @@ ("Thread" :> 24) @@ ("ME" :> 1)],
       [outputs |-> ("T3 cheese" :> 2),
        costs |-> ("T1 cheese" :> 48) @@ ("Machinery" :> 60) @@ ("ME" :> 1)],
       [outputs |-> ("mallets" :> 1), costs |-> ("Machinery" :> 30)] >>

(* Iteration order of a drop table or recipe mapping: every key once.      *)
MaterialOrder == RESOURCE_KEYS \o CONSUMABLE_KEYS

---------------------------------------------------------------------------
(* GameState, src/main.py:233-334                                          *)

_default_enemy_drops == DEFAULT_ENEMY_DROPS

_default_genre_pages == [g \in AllGenreSet |-> 0]

_copy_genre_pages(source) ==
    [g \in AllGenreSet |-> IF g \in DOMAIN source THEN source[g] ELSE 0]

FreshState ==
    [resources |-> [k \in ResourceSet |-> 0],
     consumables |-> [k \in ConsumableSet |-> 0],
     notoriety |-> [g \in BaseGenreSet |-> 0],
     enemy_drops |-> _default_enemy_drops,
     genre_pages |-> _default_genre_pages,
     total_hunts |-> 0,
     current_run_hunts |-> 0,
     chapter_position |-> 0,
     current_chapter_length |-> None,
     current_chapter_genre |-> None,
     current_chapter_progress |-> 0,
     postscript_length |-> 10,
     pending_chapter_choices |-> << >>,
     run_fantasy_available |-> FALSE,
     postscript_extended |-> FALSE,
     run_mallets_spent |-> 0,
     total_mallets_spent |-> 0,
     total_diamonds_gain |-> 0,
     pending_choices_locked |-> FALSE]

clone(s) == [s EXCEPT !.genre_pages = _copy_genre_pages(s.genre_pages)]

(* Faulty variant: one genre above 80 is enough.                           *)
fantasy_unlocked_any(s) == \E g \in DOMAIN s.notoriety : s.notoriety[g] > 80

fantasy_unlocked(s) == \A g \in DOMAIN s.notoriety : s.notoriety[g] > 80

---------------------------------------------------------------------------
(* Text of entry widgets and its parsing, src/main.py:730-736, 1151-1157   *)

IntLiterals ==
    ("-5" :> (0 - 5)) @@ ("-1" :> (0 - 1)) @@ ("0" :> 0) @@ ("1" :> 1) @@
    ("2" :> 2) @@ ("3" :> 3) @@ ("40" :> 40) @@ ("85" :> 85) @@ ("250" :> 250)

(* Decimal literals that are no integer literals, in hundredths.           *)
DecimalLiterals == ("0.5" :> 50) @@ ("1.5" :> 150)

Texts == DOMAIN IntLiterals \cup DOMAIN DecimalLiterals \cup {"", "abc", " 2 "}

strip(raw) == IF raw = " 2 " THEN "2" ELSE raw

str(n) == CHOOSE t \in DOMAIN IntLiterals : IntLiterals[t] = n

_parse_int(raw) ==
    LET stripped == strip(raw)
        text == IF stripped = "" THEN "0" ELSE stripped
    IN  IF text \in DOMAIN IntLiterals THEN Some(IntLiterals[text]) ELSE None

_parse_float(raw) ==
    LET stripped == strip(raw)
        text == IF stripped = "" THEN "0" ELSE stripped
    IN  IF text \in DOMAIN IntLiterals THEN Some(Amt(IntLiterals[text]))
        ELSE IF text \in DOMAIN DecimalLiterals THEN Some(DecimalLiterals[text])
        ELSE None

---------------------------------------------------------------------------
(* HistoryManager, src/main.py:337-370.  h = [current, undo, redo]; undo   *)
(* and redo return [ret, h]: the returned state (None when they fail) and  *)
(* the manager afterwards.                                                 *)

(* Faulty variant: a commit that keeps the redo stack.                     *)
HM_commit_keeps_redo(h, new_state) ==
    [current |-> new_state, undo |-> Append(h.undo, h.current), redo |-> h.redo]

HM_commit(h, new_state) ==
    [current |-> new_state, undo |-> Append(h.undo, h.current), redo |-> << >>]

(* Faulty variant: pushes the current state onto the redo stack before it  *)
(* looks at the undo stack.                                                *)
HM_undo_pushes_first(h) ==
    IF h.undo = << >> THEN [ret |-> None, h |-> [h EXCEPT !.redo = Append(@, h.current)]]
    ELSE LET popped == h.undo[Len(h.undo)]
         IN  [ret |-> Some(popped),
              h |-> [current |-> popped,
                     undo |-> SubSeq(h.undo, 1, Len(h.undo) - 1),
                     redo |-> Append(h.redo, h.current)]]

HM_undo(h) ==
    IF h.undo = << >> THEN [ret |-> None, h |-> h]
    ELSE LET popped == h.undo[Len(h.undo)]
         IN  [ret |-> Some(popped),
              h |-> [current |-> popped,
                     undo |-> SubSeq(h.undo, 1, Len(h.undo) - 1),
                     redo |-> Append(h.redo, h.current)]]

(* Faulty variant: a redo that does not put the current state back on the  *)
(* undo stack and returns the state it was called in.                      *)
HM_redo_returns_current(h) ==
    IF h.redo = << >> THEN [ret |-> None, h |-> h]
    ELSE [ret |-> Some(h.current),
          h |-> [h EXCEPT !.redo = SubSeq(h.redo, 1, Len(h.redo) - 1)]]

HM_redo(h) ==
    IF h.redo = << >> THEN [ret |-> None, h |-> h]
    ELSE LET popped == h.redo[Len(h.redo)]
         IN  [ret |-> Some(popped),
              h |-> [current |-> popped,
                     undo |-> Append(h.undo, h.current),
                     redo |-> SubSeq(h.redo, 1, Len(h.redo) - 1)]]

---------------------------------------------------------------------------
(* The application: a = [state, undo, redo, quantity_var, cc_enabled,      *)
(* last].  self.state and history._current always name the same object    *)
(* (src/main.py:378-379, 879, 887, 891-892) and are the one field state.   *)
(* last records the latest handler call: its name, its inputs, the title   *)
(* of the message box it showed ("" for none), how many commits it made    *)
(* and the length of the redo stack when it was called.                    *)

NoArg == [cat |-> "", key |-> "", text |-> "", num |-> 0]

Hist(a) == [current |-> a.state, undo |-> a.undo, redo |-> a.redo]

Called(a, op, arg, msg, commits) ==
    [op |-> op, arg |-> arg, msg |-> msg, commits |-> commits,
     redo_before |-> Len(a.redo)]

(* A handler that returns early: nothing but the message box (the inputs   *)
(* of a rejected call are not recorded).                                   *)
Rejected(a, op, arg, msg) == [a EXCEPT !.last = Called(a, op, NoArg, msg, 0)]

_commit_state(a, new_state, op, arg) ==
    LET h == HM_commit(Hist(a), new_state)
    IN  [a EXCEPT !.state = new_state, !.undo = h.undo, !.redo = h.redo,
                  !.last = Called(a, op, arg, "", 1)]

FreshApp ==
    [state |-> FreshState, undo |-> << >>, redo |-> << >>,
     quantity_var |-> "1", cc_enabled |-> TRUE,
     last |-> [op |-> "init", arg |-> NoArg, msg |-> "", commits |-> 0,
               redo_before |-> 0]]

(* What the history object holds after a call, written back into the app. *)
Holds(a, h) == [a EXCEPT !.state = h.current, !.undo = h.undo, !.redo = h.redo]

_undo(a) ==
    LET r == HM_undo(Hist(a))
    IN  IF r.ret = None THEN Rejected(Holds(a, r.h), "undo", NoArg, "Undo")
        ELSE [Holds(a, r.h) EXCEPT !.state = r.ret[1],
                                   !.last = Called(a, "undo", NoArg, "", 0)]

_redo(a) ==
    LET r == HM_redo(Hist(a))
    IN  IF r.ret = None THEN Rejected(Holds(a, r.h), "redo", NoArg, "Redo")
        ELSE [Holds(a, r.h) EXCEPT !.state = r.ret[1],
                                   !.last = Called(a, "redo", NoArg, "", 0)]

(* _entry_changed, src/main.py:574-590.  Resource and consumable entries   *)
(* are bound with allow_float (src/main.py:447, 451), notoriety entries    *)
(* with clamp and the integer parser (src/main.py:606).                    *)
_entry_changed(a, category, key, raw) ==
    LET arg == [cat |-> category, key |-> key, text |-> raw, num |-> 0]
        clamp == category = "notoriety"
        allow_float == category # "notoriety"
        parsed == IF allow_float THEN _parse_float(raw) ELSE _parse_int(raw)
    IN  IF parsed = None THEN Rejected(a, "entry_changed", arg, "Invalid number")
        ELSE LET value == IF clamp THEN Max2(0, Min2(200, parsed[1])) ELSE parsed[1]
                 current_dict == a.state[category]
             IN  IF key \in DOMAIN current_dict /\ current_dict[key] = value
                 THEN Rejected(a, "entry_changed", arg, "")
                 ELSE LET cloned == clone(a.state)
                          new_state ==
                            [cloned EXCEPT ![category] =
                               [k \in DOMAIN cloned[category] \cup {key} |->
                                  IF k = key THEN value ELSE cloned[category][k]]]
                      IN  _commit_state(a, new_state, "entry_changed", arg)

---------------------------------------------------------------------------
(* Crafting, src/main.py:757-784                                           *)

KeysInOrder(mapping) == SelectSeq(MaterialOrder, LAMBDA k : k \in DOMAIN mapping)

(* The user types into the quantity entry (its textvariable).              *)
type_quantity(a, raw) ==
    [a EXCEPT !.quantity_var = raw,
              !.last = Called(a, "type_quantity", [NoArg EXCEPT !.text = raw], "", 0)]

_sanitize_quantity(a) ==
    LET parsed == _parse_int(a.quantity_var)
        quantity == IF parsed = None \/ parsed[1] <= 0 THEN 1 ELSE parsed[1]
    IN  [a EXCEPT !.quantity_var = str(quantity),
                  !.last = Called(a, "sanitize_quantity", NoArg, "", 0)]

(* Some(state) after the update, None where the source raises KeyError.    *)
_apply_delta(s, key, delta) ==
    IF key \in DOMAIN s.resources
    THEN Some([s EXCEPT !.resources[key] = @ + delta])
    ELSE IF key \in DOMAIN s.consumables
    THEN Some([s EXCEPT !.consumables[key] = @ + delta])
    ELSE None

(* Faulty variant: the unit amounts are applied once, whatever the         *)
(* quantity.                                                               *)
RECURSIVE ApplyDeltas_unit(_, _, _, _, _)
ApplyDeltas_unit(os, mapping, keys, i, factor) ==
    IF os = None \/ i > Len(keys) THEN os
    ELSE ApplyDeltas_unit(
            _apply_delta(os[1], keys[i],
                         Amt(mapping[keys[i]] * (IF factor < 0 THEN 0 - 1 ELSE 1))),
            mapping, keys, i + 1, factor)

RECURSIVE ApplyDeltas(_, _, _, _, _)
ApplyDeltas(os, mapping, keys, i, factor) ==
    IF os = None \/ i > Len(keys) THEN os
    ELSE ApplyDeltas(_apply_delta(os[1], keys[i], Amt(mapping[keys[i]] * factor)),
                     mapping, keys, i + 1, factor)

(* Faulty variant: quantity 0 is accepted.                                 *)
_craft_accepts_zero(a, r) ==
    LET recipe == RECIPES[r]
        arg == [NoArg EXCEPT !.num = r, !.text = a.quantity_var]
        parsed == _parse_int(a.quantity_var)
    IN  IF parsed = None \/ parsed[1] < 0
        THEN [Rejected(a, "craft", arg, "Invalid quantity") EXCEPT !.quantity_var = "1"]
        ELSE LET quantity == parsed[1]
                 paid == ApplyDeltas(Some(clone(a.state)), recipe.costs,
                                     KeysInOrder(recipe.costs), 1, 0 - quantity)
                 made == ApplyDeltas(paid, recipe.outputs,
                                     KeysInOrder(recipe.outputs), 1, quantity)
             IN  IF made = None THEN Rejected(a, "craft", arg, "KeyError")
                 ELSE _commit_state(a, made[1], "craft", arg)

_craft(a, r) ==
    LET recipe == RECIPES[r]
        arg == [NoArg EXCEPT !.num = r, !.text = a.quantity_var]
        parsed == _parse_int(a.quantity_var)
    IN  IF parsed = None \/ parsed[1] <= 0
        THEN [Rejected(a, "craft", arg, "Invalid quantity") EXCEPT !.quantity_var = "1"]
        ELSE LET quantity == parsed[1]
                 paid == ApplyDeltas(Some(clone(a.state)), recipe.costs,
                                     KeysInOrder(recipe.costs), 1, 0 - quantity)
                 made == ApplyDeltas(paid, recipe.outputs,
                                     KeysInOrder(recipe.outputs), 1, quantity)
             IN  IF made = None THEN Rejected(a, "craft", arg, "KeyError")
                 ELSE _commit_state(a, made[1], "craft", arg)

---------------------------------------------------------------------------
(* Loot, src/main.py:786-807                                               *)

RECURSIVE SetToSeq(_)
SetToSeq(S) ==
    IF S = {} THEN << >>
    ELSE LET x == CHOOSE y \in S : TRUE IN <<x>> \o SetToSeq(S \ {x})

(* The materials of a drop table, each once: the known ones in             *)
(* MaterialOrder, then any other.                                          *)
DropKeys(drops) ==
    KeysInOrder(drops) \o SetToSeq(DOMAIN drops \ SeqToSet(MaterialOrder))

_apply_loot_amount(s, material, amount) ==
    IF material \in DOMAIN s.resources
    THEN [s EXCEPT !.resources[material] = @ + amount]
    ELSE IF material \in DOMAIN s.consumables
    THEN [s EXCEPT !.consumables[material] = @ + amount]
    ELSE [s EXCEPT !.resources =
            [k \in DOMAIN s.resources \cup {material} |->
               IF k = material THEN amount ELSE s.resources[k]]]

(* Faulty variant: every material is scaled.                               *)
LootValue_scales_all(material, amount, multiplier) == amount * multiplier

LootValue(material, amount, multiplier) ==
    IF material \notin {"Gold", "Diamond"} THEN amount * multiplier ELSE amount

RECURSIVE LootLoop(_, _, _, _, _)
LootLoop(acc, drops, keys, i, multiplier) ==
    IF i > Len(keys) THEN acc
    ELSE LET material == keys[i]
             value == LootValue(material, drops[material], multiplier)
             counted == IF material = "Diamond"
                        THEN [acc.s EXCEPT !.total_diamonds_gain = @ + value]
                        ELSE acc.s
         IN  LootLoop([s |-> _apply_loot_amount(counted, material, value),
                       results |-> Append(acc.results, <<material, value>>)],
                      drops, keys, i + 1, multiplier)

(* Returns [s, results]: the state afterwards and the (material, amount)   *)
(* pairs applied.                                                          *)
_apply_enemy_loot(s, enemy, multiplier) ==
    LET own == IF enemy \in DOMAIN s.enemy_drops THEN s.enemy_drops[enemy] ELSE << >>
        fallback == IF enemy \in DOMAIN DEFAULT_ENEMY_DROPS
                    THEN DEFAULT_ENEMY_DROPS[enemy] ELSE << >>
        drops == IF DOMAIN own # {} THEN own ELSE fallback
    IN  IF DOMAIN drops = {} THEN [s |-> s, results |-> << >>]
        ELSE LootLoop([s |-> s, results |-> << >>], drops, DropKeys(drops), 1, multiplier)

---------------------------------------------------------------------------
(* The random source.  A hunt or a run-control handler takes its draws as  *)
(* rnd = [u, idx, seed, seed2]:                                            *)
(*   u      random.uniform(0, total) = total * u / DrawDen, u in 0..DrawDen*)
(*   idx    random.choice over a list: the chosen index (1-based)          *)
(*   seed   the draws of the first random.shuffle of a generation          *)
(*   seed2  the draws of a reshuffle after the pool ran empty              *)

DrawDen == 4

NoRnd == [u |-> 0, idx |-> 1, seed |-> 0, seed2 |-> 0]

(* random.shuffle (Fisher-Yates, from the last position down): at position *)
(* i it swaps x[i] with x[j], j = randbelow(i); the successive j are the   *)
(* mixed-radix digits of seed.                                             *)
RECURSIVE ShuffleFrom(_, _, _)
ShuffleFrom(x, i, seed) ==
    IF i < 2 THEN x
    ELSE LET j == (seed % i) + 1
             swapped == [x EXCEPT ![i] = x[j], ![j] = x[i]]
         IN  ShuffleFrom(swapped, i - 1, seed \div i)

shuffle(x, seed) == ShuffleFrom(x, Len(x), seed)

---------------------------------------------------------------------------
(* Postscript hunts, src/main.py:809-853                                   *)

_page_gain_for_hunt(cheese_rule) == cheese_rule.page_gain

(* Faulty variant: genres without pages are kept in the weights.           *)
PageWeights_all(s) ==
    LET pages(g) == Max2(0, IF g \in DOMAIN s.genre_pages THEN s.genre_pages[g] ELSE 0)
        chosen == SelectSeq(AllGenresSeq, LAMBDA g : pages(g) >= 0)
    IN  [i \in 1..Len(chosen) |-> [genre |-> chosen[i], weight |-> pages(chosen[i])]]

(* weights: the (genre, pages) pairs with pages > 0, in genre order.       *)
PageWeights(s) ==
    LET pages(g) == Max2(0, IF g \in DOMAIN s.genre_pages THEN s.genre_pages[g] ELSE 0)
        chosen == SelectSeq(AllGenresSeq, LAMBDA g : pages(g) > 0)
    IN  [i \in 1..Len(chosen) |-> [genre |-> chosen[i], weight |-> pages(chosen[i])]]

RECURSIVE SumWeights(_, _)
SumWeights(weights, n) == IF n = 0 THEN 0 ELSE SumWeights(weights, n - 1) + weights[n].weight

(* Faulty variant: the last genre of the weights whatever the pick.        *)
PickLoop_last(weights, i, total, u) == weights[Len(weights)].genre

(* The first genre whose cumulative weight reaches the pick, else the last.*)
RECURSIVE PickLoop(_, _, _, _)
PickLoop(weights, i, total, u) ==
    IF i > Len(weights) THEN weights[Len(weights)].genre
    ELSE IF total * u <= SumWeights(weights, i) * DrawDen THEN weights[i].genre
    ELSE PickLoop(weights, i + 1, total, u)

_select_genre_by_pages(s, rnd) ==
    LET weights == PageWeights(s)
    IN  IF weights = << >> THEN AllGenresSeq[rnd.idx]
        ELSE PickLoop(weights, 1, SumWeights(weights, Len(weights)), rnd.u)

(* Faulty variant: the selected genre's notoriety is not capped at 200.    *)
_adjust_notoriety_uncapped(s, selected_genre, increase) ==
    LET current == IF selected_genre \in DOMAIN s.notoriety
                   THEN s.notoriety[selected_genre] ELSE 0
    IN  [s EXCEPT !.notoriety =
           [g \in DOMAIN s.notoriety \cup {selected_genre} |->
              IF g = selected_genre THEN Max2(0, current + increase)
              ELSE IF s.notoriety[g] > 1 THEN s.notoriety[g] - 1
              ELSE s.notoriety[g]]]

_adjust_notoriety(s, selected_genre, increase) ==
    LET current == IF selected_genre \in DOMAIN s.notoriety
                   THEN s.notoriety[selected_genre] ELSE 0
    IN  [s EXCEPT !.notoriety =
           [g \in DOMAIN s.notoriety \cup {selected_genre} |->
              IF g = selected_genre THEN Max2(0, Min2(200, current + increase))
              ELSE IF s.notoriety[g] > 1 THEN s.notoriety[g] - 1
              ELSE s.notoriety[g]]]

(* The hunt once the genre is drawn and the enemy's loot applied.          *)
PostscriptLooted(looted, cheese_rule, selected_genre, enemy) ==
    [s |-> IF selected_genre = FANTASY_GENRE
           THEN [looted.s EXCEPT !.notoriety =
                   [g \in DOMAIN looted.s.notoriety |->
                      Max2(0, looted.s.notoriety[g] - 20)]]
           ELSE _adjust_notoriety(looted.s, selected_genre, cheese_rule.notoriety_gain),
     genre |-> selected_genre,
     enemy |-> enemy,
     drops |-> looted.results]

(* Faulty variant: the common enemy whatever the genre.                    *)
PostscriptEnemy_common(cheese_rule, selected_genre) == cheese_rule.post_enemy

PostscriptEnemy(cheese_rule, selected_genre) ==
    IF selected_genre = FANTASY_GENRE THEN cheese_rule.post_fantasy_enemy
    ELSE cheese_rule.post_enemy

PostscriptDrawn(s, cheese_rule, multiplier, selected_genre, enemy) ==
    PostscriptLooted(_apply_enemy_loot(s, enemy, multiplier), cheese_rule,
                     selected_genre, enemy)

PostscriptSelected(s, cheese_rule, multiplier, selected_genre) ==
    PostscriptDrawn(s, cheese_rule, multiplier, selected_genre,
                    PostscriptEnemy(cheese_rule, selected_genre))

(* Returns [s, genre, enemy, drops].                                       *)
_handle_postscript_hunt(s, cheese_rule, multiplier, rnd) ==
    PostscriptSelected(s, cheese_rule, multiplier, _select_genre_by_pages(s, rnd))

---------------------------------------------------------------------------
(* Run / chapter machine, src/main.py:1291-1333, 1397-1461, 1524-1527      *)

(* Faulty variant: the bonus genre is always in the list.                  *)
_genres_for_selection_all(fantasy_available) == BASE_GENRES \o <<FANTASY_GENRE>>

_genres_for_selection(fantasy_available) ==
    IF fantasy_available THEN BASE_GENRES \o <<FANTASY_GENRE>> ELSE BASE_GENRES

(* Faulty variant: the loop stops before the last length.                  *)
RECURSIVE ChoiceLoop_short(_, _, _, _, _)
ChoiceLoop_short(genres, available_genres, i, choices, rnd) ==
    IF i > Len(CHAPTER_LENGTHS) - 1 THEN choices
    ELSE LET pool == IF available_genres = << >> THEN shuffle(genres, rnd.seed2)
                     ELSE available_genres
             genre == pool[Len(pool)]
         IN  ChoiceLoop_short(genres, SubSeq(pool, 1, Len(pool) - 1), i + 1,
                              Append(choices, [length |-> CHAPTER_LENGTHS[i],
                                               genre |-> genre]),
                              rnd)

RECURSIVE ChoiceLoop(_, _, _, _, _)
ChoiceLoop(genres, available_genres, i, choices, rnd) ==
    IF i > Len(CHAPTER_LENGTHS) THEN choices
    ELSE LET pool == IF available_genres = << >> THEN shuffle(genres, rnd.seed2)
                     ELSE available_genres
             genre == pool[Len(pool)]
         IN  ChoiceLoop(genres, SubSeq(pool, 1, Len(pool) - 1), i + 1,
                        Append(choices, [length |-> CHAPTER_LENGTHS[i], genre |-> genre]),
                        rnd)

_generate_next_chapter_choices(s, rnd) ==
    LET genres == _genres_for_selection(s.run_fantasy_available)
    IN  ChoiceLoop(genres, shuffle(genres, rnd.seed), 1, << >>, rnd)

(* Faulty variant: the pages, the run's hunts and mallets and the          *)
(* postscript length are carried over from the run before.                 *)
_initialize_new_run_state_carrying(s, fantasy_available) ==
    [s EXCEPT !.chapter_position = 0,
              !.current_chapter_length = None,
              !.current_chapter_genre = None,
              !.current_chapter_progress = 0,
              !.pending_chapter_choices = << >>,
              !.run_fantasy_available = fantasy_available,
              !.postscript_extended = FALSE,
              !.pending_choices_locked = FALSE]

_initialize_new_run_state(s, fantasy_available) ==
    [s EXCEPT !.genre_pages = _default_genre_pages,
              !.current_run_hunts = 0,
              !.chapter_position = 0,
              !.current_chapter_length = None,
              !.current_chapter_genre = None,
              !.current_chapter_progress = 0,
              !.postscript_length = 10,
              !.pending_chapter_choices = << >>,
              !.run_fantasy_available = fantasy_available,
              !.postscript_extended = FALSE,
              !.run_mallets_spent = 0,
              !.pending_choices_locked = FALSE]

(* Faulty variant: choices are generated for the last chapter too.         *)
_begin_chapter_always_choices(s, chapter_number, length, genre, rnd) ==
    LET begun == [s EXCEPT !.chapter_position = chapter_number,
                           !.current_chapter_length = Some(length),
                           !.current_chapter_genre = Some(genre),
                           !.current_chapter_progress = 0]
    IN  IF chapter_number <= TOTAL_CHAPTERS
        THEN [begun EXCEPT
                !.pending_chapter_choices = _generate_next_chapter_choices(begun, rnd),
                !.pending_choices_locked = TRUE]
        ELSE [begun EXCEPT !.pending_chapter_choices = << >>,
                           !.pending_choices_locked = FALSE]

_begin_chapter(s, chapter_number, length, genre, rnd) ==
    LET begun == [s EXCEPT !.chapter_position = chapter_number,
                           !.current_chapter_length = Some(length),
                           !.current_chapter_genre = Some(genre),
                           !.current_chapter_progress = 0]
    IN  IF chapter_number <= TOTAL_CHAPTERS - 1
        THEN [begun EXCEPT
                !.pending_chapter_choices = _generate_next_chapter_choices(begun, rnd),
                !.pending_choices_locked = TRUE]
        ELSE [begun EXCEPT !.pending_chapter_choices = << >>,
                           !.pending_choices_locked = FALSE]

(* Faulty variant: the run ends where the postscript should begin.         *)
_enter_postscript_skipped(s) ==
    [s EXCEPT !.chapter_position = 0,
              !.current_chapter_length = None,
              !.current_chapter_genre = None,
              !.current_chapter_progress = 0,
              !.pending_chapter_choices = << >>,
              !.postscript_extended = FALSE,
              !.pending_choices_locked = FALSE]

_enter_postscript(s) ==
    [s EXCEPT !.chapter_position = 7,
              !.current_chapter_length = None,
              !.current_chapter_genre = None,
              !.current_chapter_progress = 0,
              !.pending_chapter_choices = << >>,
              !.postscript_extended = FALSE,
              !.pending_choices_locked = FALSE]

(* Faulty variant: the pages of the finished run are kept.                 *)
_finish_postscript_keeping_pages(s) ==
    [s EXCEPT !.chapter_position = 0,
              !.current_chapter_length = None,
              !.current_chapter_genre = None,
              !.current_chapter_progress = 0,
              !.postscript_length = 10,
              !.pending_chapter_choices = << >>,
              !.run_fantasy_available = FALSE,
              !.current_run_hunts = 0,
              !.run_mallets_spent = 0]

(* Faulty variant: the postscript length is not reset.                     *)
_finish_postscript_keeping_length(s) ==
    [s EXCEPT !.chapter_position = 0,
              !.current_chapter_length = None,
              !.current_chapter_genre = None,
              !.current_chapter_progress = 0,
              !.pending_chapter_choices = << >>,
              !.run_fantasy_available = FALSE,
              !.current_run_hunts = 0,
              !.genre_pages = _default_genre_pages,
              !.run_mallets_spent = 0]

_finish_postscript(s) ==
    [s EXCEPT !.chapter_position = 0,
              !.current_chapter_length = None,
              !.current_chapter_genre = None,
              !.current_chapter_progress = 0,
              !.postscript_length = 10,
              !.pending_chapter_choices = << >>,
              !.run_fantasy_available = FALSE,
              !.current_run_hunts = 0,
              !.genre_pages = _default_genre_pages,
              !.run_mallets_spent = 0]

(* Faulty variant: a completed chapter leaves the lock on.                 *)
_handle_chapter_completion_keeping_lock(s, rnd) ==
    IF s.chapter_position >= TOTAL_CHAPTERS THEN _enter_postscript(s)
    ELSE LET cleared == [s EXCEPT !.current_chapter_length = None,
                                  !.current_chapter_genre = None,
                                  !.current_chapter_progress = 0]
         IN  IF cleared.pending_chapter_choices = << >>
             THEN [cleared EXCEPT !.pending_chapter_choices =
                                     _generate_next_chapter_choices(cleared, rnd)]
             ELSE cleared

(* Faulty variant: the last chapter completes like any other.              *)
_handle_chapter_completion_never_last(s, rnd) ==
    IF s.chapter_position > TOTAL_CHAPTERS THEN _enter_postscript(s)
    ELSE LET cleared == [s EXCEPT !.current_chapter_length = None,
                                  !.current_chapter_genre = None,
                                  !.current_chapter_progress = 0,
                                  !.pending_choices_locked = FALSE]
         IN  IF cleared.pending_chapter_choices = << >>
             THEN [cleared EXCEPT !.pending_chapter_choices =
                                     _generate_next_chapter_choices(cleared, rnd)]
             ELSE cleared

_handle_chapter_completion(s, rnd) ==
    IF s.chapter_position >= TOTAL_CHAPTERS THEN _enter_postscript(s)
    ELSE LET cleared == [s EXCEPT !.current_chapter_length = None,
                                  !.current_chapter_genre = None,
                                  !.current_chapter_progress = 0,
                                  !.pending_choices_locked = FALSE]
         IN  IF cleared.pending_chapter_choices = << >>
             THEN [cleared EXCEPT !.pending_chapter_choices =
                                     _generate_next_chapter_choices(cleared, rnd)]
             ELSE cleared

_record_mallet_spend(s, amount) ==
    [s EXCEPT !.run_mallets_spent = @ + amount, !.total_mallets_spent = @ + amount]

---------------------------------------------------------------------------
(* Run control handlers, src/main.py:1215-1295, 1422-1437, 1463-1500       *)

(* Faulty variant: a run may start in any phase.                           *)
_ensure_can_start_run_anywhere(a) == a.state.chapter_position >= 0

_ensure_can_start_run(a) == a.state.chapter_position = 0

(* length_idx and genre_idx are the two random.choice draws.               *)
_start_random_run(a, length_idx, genre_idx, rnd) ==
    LET fantasy_available == fantasy_unlocked(a.state)
        available_genres == _genres_for_selection(fantasy_available)
        length == CHAPTER_LENGTHS[length_idx]
        genre == available_genres[genre_idx]
        arg == [NoArg EXCEPT !.num = length, !.key = genre]
    IN  IF ~_ensure_can_start_run(a)
        THEN Rejected(a, "start_random_run", arg, "Run in progress")
        ELSE LET reset == _initialize_new_run_state(clone(a.state), fantasy_available)
                 new_state == _begin_chapter(reset, 1, length, genre, rnd)
             IN  _commit_state(a, new_state, "start_random_run", arg)

(* Faulty variant: the bonus genre is accepted whatever the notoriety.     *)
_confirm_manual_start_unlocked(a, length, genre, rnd) ==
    IF a.state.resources["mallets"] < Amt(30)
    THEN Rejected(a, "start_manual_run", NoArg, "Not enough Mallets")
    ELSE _commit_state(
            a,
            _begin_chapter(
               _record_mallet_spend(
                  _initialize_new_run_state(
                     [a.state EXCEPT !.resources["mallets"] = @ - Amt(30)],
                     fantasy_unlocked(a.state)), 30),
               1, length, genre, rnd),
            "start_manual_run", [NoArg EXCEPT !.num = length, !.key = genre])

_confirm_manual_start(a, length, genre, rnd) ==
    LET arg == [NoArg EXCEPT !.num = length, !.key = genre]
        cloned == clone(a.state)
    IN  IF cloned.resources["mallets"] < Amt(30)
        THEN Rejected(a, "start_manual_run", arg, "Not enough Mallets")
        ELSE LET paid == [cloned EXCEPT !.resources["mallets"] = @ - Amt(30)]
                 fantasy_available == fantasy_unlocked(paid)
             IN  IF genre = FANTASY_GENRE /\ ~fantasy_available
                 THEN Rejected(a, "start_manual_run", arg, "Fantasy locked")
                 ELSE LET reset == _initialize_new_run_state(paid, fantasy_available)
                          spent == _record_mallet_spend(reset, 30)
                          new_state == _begin_chapter(spent, 1, length, genre, rnd)
                      IN  _commit_state(a, new_state, "start_manual_run", arg)

(* _start_manual_run with the dialog it opens: length and genre are what   *)
(* the user confirms there.                                                *)
_start_manual_run(a, length, genre, rnd) ==
    LET arg == [NoArg EXCEPT !.num = length, !.key = genre]
    IN  IF ~_ensure_can_start_run(a)
        THEN Rejected(a, "start_manual_run", arg, "Run in progress")
        ELSE IF a.state.resources["mallets"] < Amt(30)
        THEN Rejected(a, "start_manual_run", arg, "Not enough Mallets")
        ELSE _confirm_manual_start(a, length, genre, rnd)

(* Faulty variant: the lock is not consulted.                              *)
_choose_next_chapter_ignoring_lock(a, choice, rnd) ==
    LET arg == IF choice = None THEN NoArg
               ELSE [NoArg EXCEPT !.num = choice[1].length, !.key = choice[1].genre]
    IN  IF choice = None \/ choice[1].length = 0
        THEN Rejected(a, "choose_next_chapter", arg, "")
        ELSE LET cloned == clone(a.state)
             IN  IF cloned.pending_chapter_choices = << >>
                 THEN Rejected(a, "choose_next_chapter", arg, "")
                 ELSE LET capped == Min2(cloned.chapter_position + 1, TOTAL_CHAPTERS)
                          next_chapter_number ==
                            IF capped <= cloned.chapter_position
                            THEN cloned.chapter_position + 1 ELSE capped
                          new_state == _begin_chapter(cloned, next_chapter_number,
                                                      choice[1].length, choice[1].genre, rnd)
                      IN  _commit_state(a, new_state, "choose_next_chapter", arg)

(* Faulty variant: choosing the next chapter takes 3 mallets.              *)
_choose_next_chapter_charging(a, choice, rnd) ==
    LET arg == IF choice = None THEN NoArg
               ELSE [NoArg EXCEPT !.num = choice[1].length, !.key = choice[1].genre]
    IN  IF choice = None \/ choice[1].length = 0
        THEN Rejected(a, "choose_next_chapter", arg, "")
        ELSE LET cloned == clone(a.state)
             IN  IF cloned.pending_chapter_choices = << >>
                 THEN Rejected(a, "choose_next_chapter", arg, "")
                 ELSE IF cloned.pending_choices_locked
                 THEN Rejected(a, "choose_next_chapter", arg, "Chapter in progress")
                 ELSE LET capped == Min2(cloned.chapter_position + 1, TOTAL_CHAPTERS)
                          next_chapter_number ==
                            IF capped <= cloned.chapter_position
                            THEN cloned.chapter_position + 1 ELSE capped
                          paid == [cloned EXCEPT !.resources["mallets"] = @ - Amt(3)]
                          new_state == _begin_chapter(paid, next_chapter_number,
                                                      choice[1].length, choice[1].genre, rnd)
                      IN  _commit_state(a, new_state, "choose_next_chapter", arg)

(* choice is None or Some([length, genre]).                                *)
_choose_next_chapter(a, choice, rnd) ==
    LET arg == IF choice = None THEN NoArg
               ELSE [NoArg EXCEPT !.num = choice[1].length, !.key = choice[1].genre]
    IN  IF choice = None \/ choice[1].length = 0
        THEN Rejected(a, "choose_next_chapter", arg, "")
        ELSE LET cloned == clone(a.state)
             IN  IF cloned.pending_chapter_choices = << >>
                 THEN Rejected(a, "choose_next_chapter", arg, "")
                 ELSE IF cloned.pending_choices_locked
                 THEN Rejected(a, "choose_next_chapter", arg, "Chapter in progress")
                 ELSE LET capped == Min2(cloned.chapter_position + 1, TOTAL_CHAPTERS)
                          next_chapter_number ==
                            IF capped <= cloned.chapter_position
                            THEN cloned.chapter_position + 1 ELSE capped
                          new_state == _begin_chapter(cloned, next_chapter_number,
                                                      choice[1].length, choice[1].genre, rnd)
                      IN  _commit_state(a, new_state, "choose_next_chapter", arg)

(* Faulty variant: the fee is not added to the spend counters.             *)
_extend_postscript_unrecorded(a) ==
    IF a.state.chapter_position # 7
    THEN Rejected(a, "extend_postscript", NoArg, "Not in Postscript")
    ELSE IF a.state.resources["mallets"] < Amt(30)
    THEN Rejected(a, "extend_postscript", NoArg, "Not enough Mallets")
    ELSE LET cloned == clone(a.state)
             new_state == [cloned EXCEPT !.resources["mallets"] = @ - Amt(30),
                                         !.postscript_length = @ + 3,
                                         !.postscript_extended = TRUE]
         IN  _commit_state(a, new_state, "extend_postscript", NoArg)

_extend_postscript(a) ==
    IF a.state.chapter_position # 7
    THEN Rejected(a, "extend_postscript", NoArg, "Not in Postscript")
    ELSE IF a.state.resources["mallets"] < Amt(30)
    THEN Rejected(a, "extend_postscript", NoArg, "Not enough Mallets")
    ELSE LET cloned == clone(a.state)
             new_state == _record_mallet_spend(
                            [cloned EXCEPT !.resources["mallets"] = @ - Amt(30),
                                           !.postscript_length = @ + 3,
                                           !.postscript_extended = TRUE], 30)
         IN  _commit_state(a, new_state, "extend_postscript", NoArg)

(* Faulty variant: the button ignores the extended flag.                   *)
extend_state_any_time(s) ==
    /\ s.chapter_position = 7
    /\ s.resources["mallets"] >= Amt(30)

(* The states in which _refresh_hunt_section enables the Extend button;    *)
(* the view is refreshed after every commit, undo and redo.  (The other    *)
(* buttons' disabled states repeat a test their handlers make.)            *)
extend_state(s) ==
    /\ s.chapter_position = 7
    /\ s.resources["mallets"] >= Amt(30)
    /\ ~s.postscript_extended

(* A click on the Extend button: a disabled button does not call its       *)
(* command.                                                                *)
extend_postscript_button(a) ==
    IF extend_state(a.state) THEN _extend_postscript(a)
    ELSE Rejected(a, "extend_postscript", NoArg, "disabled")

(* Faulty variant: locked choices cannot be rerolled.                      *)
_reroll_chapter_choices_needs_unlocked(a, rnd) ==
    IF a.state.pending_chapter_choices = << >> \/ a.state.pending_choices_locked
    THEN Rejected(a, "reroll_chapter_choices", NoArg, "Nothing to reroll")
    ELSE IF a.state.resources["mallets"] < Amt(3)
    THEN Rejected(a, "reroll_chapter_choices", NoArg, "Not enough Mallets")
    ELSE LET cloned == clone(a.state)
             paid == [cloned EXCEPT !.resources["mallets"] = @ - Amt(3)]
             rerolled == [paid EXCEPT !.pending_chapter_choices =
                                        _generate_next_chapter_choices(paid, rnd)]
         IN  _commit_state(a, _record_mallet_spend(rerolled, 3),
                           "reroll_chapter_choices", NoArg)

_reroll_chapter_choices(a, rnd) ==
    IF a.state.pending_chapter_choices = << >>
    THEN Rejected(a, "reroll_chapter_choices", NoArg, "Nothing to reroll")
    ELSE IF a.state.resources["mallets"] < Amt(3)
    THEN Rejected(a, "reroll_chapter_choices", NoArg, "Not enough Mallets")
    ELSE LET cloned == clone(a.state)
             paid == [cloned EXCEPT !.resources["mallets"] = @ - Amt(3)]
             rerolled == [paid EXCEPT !.pending_chapter_choices =
                                        _generate_next_chapter_choices(paid, rnd)]
         IN  _commit_state(a, _record_mallet_spend(rerolled, 3),
                           "reroll_chapter_choices", NoArg)

---------------------------------------------------------------------------
(* Hunts, src/main.py:1335-1395, 1506-1522, 1568-1569                      *)

_cc_multiplier == 2

(* The steps of an accepted hunt on the cloned state, in order.            *)
HuntCounted(cloned, cheese_rule) ==
    [cloned EXCEPT !.resources[cheese_rule.resource] = @ - Amt(1),
                   !.current_chapter_progress = @ + 1,
                   !.total_hunts = @ + 1,
                   !.current_run_hunts = @ + 1]

(* Faulty variant: the consumable is charged only while some is held.      *)
HuntCharged_floored(counted, cc) ==
    IF cc /\ counted.consumables["CC"] > 0
    THEN [counted EXCEPT !.consumables["CC"] = @ - Amt(1)] ELSE counted

HuntCharged(counted, cc) ==
    IF cc THEN [counted EXCEPT !.consumables["CC"] = @ - Amt(1)] ELSE counted

(* Faulty variant: the gain goes to every genre.                           *)
HuntPaged_every_genre(charged, genre, gain) ==
    [charged EXCEPT !.genre_pages =
       [g \in DOMAIN charged.genre_pages \cup {genre} |->
          IF g = genre
          THEN (IF genre \in DOMAIN charged.genre_pages
                THEN charged.genre_pages[genre] ELSE 0) + gain
          ELSE charged.genre_pages[g] + gain]]

HuntPaged(charged, genre, gain) ==
    [charged EXCEPT !.genre_pages =
       [g \in DOMAIN charged.genre_pages \cup {genre} |->
          IF g = genre
          THEN (IF genre \in DOMAIN charged.genre_pages
                THEN charged.genre_pages[genre] ELSE 0) + gain
          ELSE charged.genre_pages[g]]]

HuntLooted(charged, cheese_rule, loot_multiplier, rnd) ==
    IF charged.chapter_position = 7
    THEN _handle_postscript_hunt(charged, cheese_rule, loot_multiplier, rnd).s
    ELSE IF charged.current_chapter_genre # None /\ charged.current_chapter_genre # Some("")
    THEN _apply_enemy_loot(HuntPaged(charged, charged.current_chapter_genre[1],
                                     _page_gain_for_hunt(cheese_rule)),
                           cheese_rule.chapter_enemy, loot_multiplier).s
    ELSE charged

(* Faulty variant: every hunt completes the chapter.                       *)
HuntCompleted_every_hunt(hunted, target_length, rnd) ==
    IF hunted.current_chapter_progress >= 1
    THEN IF hunted.chapter_position = 7 THEN _finish_postscript(hunted)
         ELSE _handle_chapter_completion(hunted, rnd)
    ELSE hunted

(* Faulty variant: completion only once the target is exceeded.            *)
HuntCompleted_late(hunted, target_length, rnd) ==
    IF hunted.current_chapter_progress > target_length
    THEN IF hunted.chapter_position = 7 THEN _finish_postscript(hunted)
         ELSE _handle_chapter_completion(hunted, rnd)
    ELSE hunted

HuntCompleted(hunted, target_length, rnd) ==
    IF hunted.current_chapter_progress >= target_length
    THEN IF hunted.chapter_position = 7 THEN _finish_postscript(hunted)
         ELSE _handle_chapter_completion(hunted, rnd)
    ELSE hunted

HuntAccepted(st, cc, cheese_rule, target_length, rnd) ==
    HuntCompleted(
       HuntLooted(HuntCharged(HuntCounted(clone(st), cheese_rule), cc), cheese_rule,
                  IF cc THEN _cc_multiplier ELSE 1, rnd),
       target_length, rnd)

(* Faulty variant: the postscript has no target.                           *)
TargetLength_without_postscript(st) == st.current_chapter_length

TargetLength(st) ==
    IF st.chapter_position = 7 THEN Some(st.postscript_length)
    ELSE st.current_chapter_length

HuntArg(cheese_type) ==
    [NoArg EXCEPT !.key = IF cheese_type = None THEN "" ELSE cheese_type[1]]

(* Faulty variant: no check for the idle phase.                            *)
_perform_hunt_when_idle(a, cheese_type, rnd) ==
    IF /\ a.state.pending_chapter_choices # << >>
            /\ ~a.state.pending_choices_locked
            /\ a.state.chapter_position <= TOTAL_CHAPTERS
    THEN Rejected(a, "perform_hunt", NoArg, "Select chapter")
    ELSE IF cheese_type = None
    THEN Rejected(a, "perform_hunt", NoArg, "Select cheese")
    ELSE IF ~(\/ (1 <= a.state.chapter_position /\ a.state.chapter_position <= TOTAL_CHAPTERS)
              \/ a.state.chapter_position = 7)
    THEN Rejected(a, "perform_hunt", NoArg, "Cannot use cheese")
    ELSE IF TargetLength(a.state) = None \/ TargetLength(a.state)[1] = 0
    THEN Rejected(a, "perform_hunt", NoArg, "Invalid chapter")
    ELSE IF a.state.resources[CHEESE_HUNT_RULES[cheese_type[1]].resource] <= 0
    THEN Rejected(a, "perform_hunt", NoArg, "Not enough cheese")
    ELSE _commit_state(a,
                       HuntAccepted(a.state, a.cc_enabled, CHEESE_HUNT_RULES[cheese_type[1]],
                                    TargetLength(a.state)[1], rnd),
                       "perform_hunt", HuntArg(cheese_type))

(* Faulty variant: the lock, not its absence, blocks the hunt.             *)
_perform_hunt_lock_blocks(a, cheese_type, rnd) ==
    IF a.state.chapter_position = 0
    THEN Rejected(a, "perform_hunt", NoArg, "Not started")
    ELSE IF /\ a.state.pending_chapter_choices # << >>
            /\ a.state.pending_choices_locked
            /\ a.state.chapter_position <= TOTAL_CHAPTERS
    THEN Rejected(a, "perform_hunt", NoArg, "Select chapter")
    ELSE IF cheese_type = None
    THEN Rejected(a, "perform_hunt", NoArg, "Select cheese")
    ELSE IF ~(\/ (1 <= a.state.chapter_position /\ a.state.chapter_position <= TOTAL_CHAPTERS)
              \/ a.state.chapter_position = 7)
    THEN Rejected(a, "perform_hunt", NoArg, "Cannot use cheese")
    ELSE IF TargetLength(a.state) = None \/ TargetLength(a.state)[1] = 0
    THEN Rejected(a, "perform_hunt", NoArg, "Invalid chapter")
    ELSE IF a.state.resources[CHEESE_HUNT_RULES[cheese_type[1]].resource] <= 0
    THEN Rejected(a, "perform_hunt", NoArg, "Not enough cheese")
    ELSE _commit_state(a,
                       HuntAccepted(a.state, a.cc_enabled, CHEESE_HUNT_RULES[cheese_type[1]],
                                    TargetLength(a.state)[1], rnd),
                       "perform_hunt", HuntArg(cheese_type))

(* cheese_type is None or Some("T1" | "T2" | "T3").                        *)
_perform_hunt(a, cheese_type, rnd) ==
    IF a.state.chapter_position = 0
    THEN Rejected(a, "perform_hunt", NoArg, "Not started")
    ELSE IF /\ a.state.pending_chapter_choices # << >>
            /\ ~a.state.pending_choices_locked
            /\ a.state.chapter_position <= TOTAL_CHAPTERS
    THEN Rejected(a, "perform_hunt", NoArg, "Select chapter")
    ELSE IF cheese_type = None
    THEN Rejected(a, "perform_hunt", NoArg, "Select cheese")
    ELSE IF ~(\/ (1 <= a.state.chapter_position /\ a.state.chapter_position <= TOTAL_CHAPTERS)
              \/ a.state.chapter_position = 7)
    THEN Rejected(a, "perform_hunt", NoArg, "Cannot use cheese")
    ELSE IF TargetLength(a.state) = None \/ TargetLength(a.state)[1] = 0
    THEN Rejected(a, "perform_hunt", NoArg, "Invalid chapter")
    ELSE IF a.state.resources[CHEESE_HUNT_RULES[cheese_type[1]].resource] <= 0
    THEN Rejected(a, "perform_hunt", NoArg, "Not enough cheese")
    ELSE _commit_state(a,
                       HuntAccepted(a.state, a.cc_enabled, CHEESE_HUNT_RULES[cheese_type[1]],
                                    TargetLength(a.state)[1], rnd),
                       "perform_hunt", HuntArg(cheese_type))

(* rnds: the draws of the ten hunts, in order.                             *)
RECURSIVE HuntLoop(_, _, _, _, _)
HuntNext(b, cheese_type, rnds, i, commits) ==
    IF b.last.commits < 0 THEN [a |-> b, commits |-> commits]
    ELSE HuntLoop(b, cheese_type, rnds, i + 1, commits + b.last.commits)

HuntLoop(a, cheese_type, rnds, i, commits) ==
    IF i > 10 THEN [a |-> a, commits |-> commits]
    ELSE HuntNext(_perform_hunt(a, Some(cheese_type), rnds[i]), cheese_type, rnds, i, commits)

BatchDone(a, arg, done) ==
    [done.a EXCEPT !.last = Called(a, "batch_hunt", arg, done.a.last.msg, done.commits)]

(* Faulty variant: one remaining hunt is enough for a batch.               *)
_batch_hunt_any_progress(a, cheese_type, rnds) ==
    IF a.state.resources[CHEESE_HUNT_RULES[cheese_type].resource] < Amt(10)
    THEN Rejected(a, "batch_hunt", NoArg, "Not enough cheese")
    ELSE IF (IF TargetLength(a.state) = None THEN 0 ELSE TargetLength(a.state)[1])
            - a.state.current_chapter_progress < 1
    THEN Rejected(a, "batch_hunt", NoArg, "Not enough progress")
    ELSE BatchDone(a, [NoArg EXCEPT !.key = cheese_type],
                   HuntLoop(a, cheese_type, rnds, 1, 0))

_batch_hunt(a, cheese_type, rnds) ==
    IF a.state.resources[CHEESE_HUNT_RULES[cheese_type].resource] < Amt(10)
    THEN Rejected(a, "batch_hunt", NoArg, "Not enough cheese")
    ELSE IF (IF TargetLength(a.state) = None THEN 0 ELSE TargetLength(a.state)[1])
            - a.state.current_chapter_progress < 10
    THEN Rejected(a, "batch_hunt", NoArg, "Not enough progress")
    ELSE BatchDone(a, [NoArg EXCEPT !.key = cheese_type],
                   HuntLoop(a, cheese_type, rnds, 1, 0))

---------------------------------------------------------------------------
(* Snapshot documents, src/main.py:278-331, 1135-1149.  A document is a    *)
(* mapping from field names to values; from_dict defaults every field it   *)
(* does not find.                                                          *)

Get(mapping, key, default) == IF key \in DOMAIN mapping THEN mapping[key] ELSE default

EmptyDoc == << >>

(* Faulty variant: a document written without the lock flag.               *)
to_dict_without_lock(s) ==
    [f \in DOMAIN s \ {"pending_choices_locked"} |-> s[f]]

(* The document json.dump writes and json.load reads back: the mappings,   *)
(* numbers, flags, texts and None of the state, under the field names.     *)
to_dict(s) ==
    [resources |-> s.resources,
     consumables |-> s.consumables,
     notoriety |-> s.notoriety,
     enemy_drops |-> s.enemy_drops,
     genre_pages |-> s.genre_pages,
     total_hunts |-> s.total_hunts,
     current_run_hunts |-> s.current_run_hunts,
     chapter_position |-> s.chapter_position,
     current_chapter_length |-> s.current_chapter_length,
     current_chapter_genre |-> s.current_chapter_genre,
     current_chapter_progress |-> s.current_chapter_progress,
     postscript_length |-> s.postscript_length,
     pending_chapter_choices |-> s.pending_chapter_choices,
     run_fantasy_available |-> s.run_fantasy_available,
     postscript_extended |-> s.postscript_extended,
     run_mallets_spent |-> s.run_mallets_spent,
     total_mallets_spent |-> s.total_mallets_spent,
     pending_choices_locked |-> s.pending_choices_locked,
     total_diamonds_gain |-> s.total_diamonds_gain]

(* Saving leaves the application as it is; the file is written by the      *)
(* SaveSnapshot step.                                                      *)
_save_snapshot(a) ==
    [a EXCEPT !.last = Called(a, "save_snapshot", NoArg, "Snapshot saved", 0)]

from_dict(data) ==
    LET raw_resources == Get(data, "resources", << >>)
        raw_consumables == Get(data, "consumables", << >>)
        raw_notoriety == Get(data, "notoriety", << >>)
        raw_drops == Get(data, "enemy_drops", << >>)
    IN  [resources |-> [k \in ResourceSet |-> Get(raw_resources, k, 0)],
         consumables |-> [k \in ConsumableSet |-> Get(raw_consumables, k, 0)],
         notoriety |-> [g \in BaseGenreSet |->
                          Max2(0, Min2(200, Get(raw_notoriety, g, 0)))],
         enemy_drops |-> [e \in DOMAIN raw_drops \cup DOMAIN DEFAULT_ENEMY_DROPS |->
                            IF e \in DOMAIN raw_drops THEN raw_drops[e]
                            ELSE DEFAULT_ENEMY_DROPS[e]],
         genre_pages |-> _copy_genre_pages(Get(data, "genre_pages", << >>)),
         total_hunts |-> Get(data, "total_hunts", 0),
         current_run_hunts |-> Get(data, "current_run_hunts", 0),
         chapter_position |-> Get(data, "chapter_position", 0),
         current_chapter_length |-> Get(data, "current_chapter_length", None),
         current_chapter_genre |-> Get(data, "current_chapter_genre", None),
         current_chapter_progress |-> Get(data, "current_chapter_progress", 0),
         postscript_length |-> Get(data, "postscript_length", 10),
         pending_chapter_choices |-> Get(data, "pending_chapter_choices", << >>),
         run_fantasy_available |-> Get(data, "run_fantasy_available", FALSE),
         postscript_extended |-> Get(data, "postscript_extended", FALSE),
         run_mallets_spent |-> Get(data, "run_mallets_spent", 0),
         total_mallets_spent |-> Get(data, "total_mallets_spent", 0),
         total_diamonds_gain |-> Get(data, "total_diamonds_gain", 0),
         pending_choices_locked |-> Get(data, "pending_choices_locked", FALSE)]

(* file is None when the file cannot be read or parsed, else Some(doc).    *)
_load_snapshot(a, file, n) ==
    LET arg == [NoArg EXCEPT !.num = n]
    IN  IF file = None THEN Rejected(a, "load_snapshot", arg, "Load failed")
        ELSE _commit_state(a, from_dict(file[1]), "load_snapshot", arg)

---------------------------------------------------------------------------
(* Loot table edits, src/main.py:1165-1213                                 *)

_drop_value_changed(a, enemy, material, raw) ==
    LET arg == [cat |-> enemy, key |-> material, text |-> raw, num |-> 0]
        parsed == _parse_float(raw)
        own == Get(a.state.enemy_drops, enemy, << >>)
    IN  IF parsed = None THEN Rejected(a, "drop_value_changed", arg, "Invalid number")
        ELSE IF Get(own, material, 0) = parsed[1]
        THEN Rejected(a, "drop_value_changed", arg, "")
        ELSE LET cloned == clone(a.state)
                 drops == [m \in DOMAIN own \cup {material} |->
                             IF m = material THEN parsed[1] ELSE own[m]]
                 new_state ==
                   [cloned EXCEPT !.enemy_drops =
                      [e \in DOMAIN cloned.enemy_drops \cup {enemy} |->
                         IF e = enemy THEN drops ELSE cloned.enemy_drops[e]]]
             IN  _commit_state(a, new_state, "drop_value_changed", arg)

_add_drop_to_enemy(a, enemy, material) ==
    LET arg == [cat |-> enemy, key |-> material, text |-> "", num |-> 0]
        cloned == clone(a.state)
        own == Get(cloned.enemy_drops, enemy, << >>)
    IN  IF material \in DOMAIN own THEN Rejected(a, "add_drop_to_enemy", arg, "")
        ELSE LET drops == [m \in DOMAIN own \cup {material} |->
                             IF m = material THEN 0 ELSE own[m]]
                 new_state ==
                   [cloned EXCEPT !.enemy_drops =
                      [e \in DOMAIN cloned.enemy_drops \cup {enemy} |->
                         IF e = enemy THEN drops ELSE cloned.enemy_drops[e]]]
             IN  _commit_state(a, new_state, "add_drop_to_enemy", arg)

---------------------------------------------------------------------------
(* Bounds of the exploration and the inputs the handlers are called with.  *)

(* Handler calls per behaviour.                                            *)
MaxSteps == 3

(* Handler calls left to a behaviour that starts at a checkpoint.          *)
CheckpointSteps == 2

(* Random streams tried where a handler shuffles or picks at run start:    *)
(* seeds 0, SeedStride, 2 * SeedStride, ...  A stream's two random.choice  *)
(* draws at a random run start are digits of its seed.                     *)
MaxSeed == 2
SeedStride == 7
Seeds == {k * SeedStride : k \in 0..(MaxSeed - 1)}

SeedRnds == {[NoRnd EXCEPT !.seed = sd] : sd \in Seeds}

LengthDraw(seed) == (seed % Len(CHAPTER_LENGTHS)) + 1
GenreDraw(seed, n) == n - ((seed \div Len(CHAPTER_LENGTHS)) % n)

(* What the user picks in the manual-start dialog.                         *)
ManualPicks == {<<10, "Romance">>, <<30, "Fantasy">>}

(* category, key, text typed.                                              *)
EditInputs ==
    {<<"resources", "mallets", "40">>, <<"resources", "mallets", "-1">>,
     <<"resources", "T1 cheese", "40">>, <<"resources", "T1 cheese", "0.5">>,
     <<"resources", "T1 cheese", "abc">>, <<"consumables", "CC", "-1">>,
     <<"notoriety", "Romance", "85">>, <<"notoriety", "Romance", "250">>,
     <<"notoriety", "Romance", "-5">>, <<"notoriety", "Romance", "0.5">>}

QuantityTexts == {"1.5", "-1", "0", " 2 ", "3"}

DropEdits == {<<"T2 mouse", "Machinery", "3">>, <<"T2 mouse", "Gold", "abc">>}

DropAdds == {<<"T1 mouse", "Diamond">>, <<"T1 mouse", "Gold">>}

(* Snapshot files offered to Load.                                         *)
PostscriptDoc ==
    [chapter_position |-> 7, current_chapter_progress |-> 8, postscript_length |-> 10,
     resources |-> ("T1 cheese" :> Amt(12)) @@ ("T2 cheese" :> Amt(2)) @@
                   ("mallets" :> Amt(65)),
     consumables |-> ("CC" :> Amt(1)),
     notoriety |-> ("Romance" :> 250) @@ ("Adventure" :> (0 - 5)) @@ ("Comedy" :> 1) @@
                   ("Tragedy" :> 190) @@ ("Suspense" :> 100),
     genre_pages |-> ("Romance" :> 250) @@ ("Tragedy" :> 500) @@ ("Fantasy" :> 250),
     run_fantasy_available |-> TRUE, total_hunts |-> 68, current_run_hunts |-> 68,
     run_mallets_spent |-> 3, total_mallets_spent |-> 36]

ChapterDoc ==
    [chapter_position |-> 5, current_chapter_length |-> Some(10),
     current_chapter_genre |-> Some("Comedy"), current_chapter_progress |-> 9,
     resources |-> ("T1 cheese" :> Amt(12)) @@ ("T2 cheese" :> Amt(2)) @@
                   ("T3 cheese" :> 50) @@ ("mallets" :> Amt(4)),
     enemy_drops |-> ("T2 mouse" :> (("T2 cheese" :> 300) @@ ("Machinery" :> 243))),
     notoriety |-> [g \in BaseGenreSet |-> 90],
     genre_pages |-> ("Romance" :> 500) @@ ("Comedy" :> 225),
     pending_chapter_choices |->
        << [length |-> 10, genre |-> "Fantasy"], [length |-> 20, genre |-> "Tragedy"],
           [length |-> 30, genre |-> "Romance"] >>,
     pending_choices_locked |-> TRUE,
     run_fantasy_available |-> TRUE, total_hunts |-> 49, current_run_hunts |-> 49]

(* Idle, with what a run left behind still in the file.                    *)
IdleDoc ==
    [chapter_position |-> 0, current_chapter_progress |-> 4, postscript_length |-> 13,
     resources |-> ("T1 cheese" :> Amt(12)) @@ ("mallets" :> Amt(40)),
     notoriety |-> [g \in BaseGenreSet |-> 90],
     genre_pages |-> ("Romance" :> 75) @@ ("Fantasy" :> 25),
     postscript_extended |-> TRUE,
     current_run_hunts |-> 5, total_hunts |-> 5,
     run_mallets_spent |-> 33, total_mallets_spent |-> 33]

OddDoc ==
    [chapter_position |-> 3, current_chapter_progress |-> 2,
     resources |-> ("T1 cheese" :> Amt(1)),
     enemy_drops |-> ("T1 mouse" :> << >>) @@ ("Stray" :> [Gold |-> 100]),
     pending_chapter_choices |->
        << [length |-> 10, genre |-> "Fantasy"], [length |-> 10, genre |-> "Fantasy"] >>]

SnapshotFiles ==
    <<None, Some(EmptyDoc), Some(PostscriptDoc), Some(ChapterDoc), Some(OddDoc),
      Some(IdleDoc)>>

(* The draws a hunt can consume in state st.                               *)
HuntRnds(st) ==
    IF st.chapter_position = 7
    THEN IF PageWeights(st) = << >>
         THEN {[NoRnd EXCEPT !.idx = i] : i \in 1..Len(AllGenresSeq)}
         ELSE {[NoRnd EXCEPT !.u = u] : u \in 0..DrawDen}
    ELSE IF st.pending_chapter_choices = << >> /\ st.chapter_position < TOTAL_CHAPTERS
    THEN SeedRnds
    ELSE {NoRnd}

(* A batch draws the same value for each of its ten hunts.                 *)
BatchRnds(st) == {[i \in 1..10 |-> r] : r \in HuntRnds(st) \cup {NoRnd}}

(* The choice buttons on display; a stale choice when there is none.       *)
ChoiceInputs(st) ==
    IF st.pending_chapter_choices = << >>
    THEN {None, Some([length |-> 10, genre |-> "Romance"])}
    ELSE {Some(st.pending_chapter_choices[i]) : i \in 1..Len(st.pending_chapter_choices)}

---------------------------------------------------------------------------
(* The state machine                                                       *)

(* file is the snapshot file the application wrote last (None before the   *)
(* first save); the other variables are the application's own.             *)
VARIABLES state, undo, redo, quantity_var, cc_enabled, last, steps, file

vars == <<state, undo, redo, quantity_var, cc_enabled, last, steps, file>>

App == [state |-> state, undo |-> undo, redo |-> redo,
        quantity_var |-> quantity_var, cc_enabled |-> cc_enabled, last |-> last]

Becomes(n) ==
    /\ state' = n.state
    /\ undo' = n.undo
    /\ redo' = n.redo
    /\ quantity_var' = n.quantity_var
    /\ cc_enabled' = n.cc_enabled
    /\ last' = n.last
    /\ steps' = steps + 1

(* One handler call: its result is computed once.                          *)
Step(result) == steps < MaxSteps /\ file' = file /\ \E n \in {result} : Becomes(n)

(* The app is a, with used handler calls of the budget gone.               *)
Starts(a, used) ==
    /\ state = a.state
    /\ undo = a.undo
    /\ redo = a.redo
    /\ quantity_var = a.quantity_var
    /\ cc_enabled = a.cc_enabled
    /\ last = a.last
    /\ steps = used
    /\ file = None

Init == Starts(FreshApp, 0)

EntryChanged == \E e \in EditInputs : Step(_entry_changed(App, e[1], e[2], e[3]))

TypeQuantity == \E raw \in QuantityTexts : Step(type_quantity(App, raw))

SanitizeQuantity == Step(_sanitize_quantity(App))

Craft == \E r \in 1..Len(RECIPES) : Step(_craft(App, r))

ToggleCC ==
    Step([App EXCEPT !.cc_enabled = ~cc_enabled,
                        !.last = Called(App, "toggle_cc", NoArg, "", 0)])

StartRandomRun ==
    \E rnd \in SeedRnds :
       LET n == Len(_genres_for_selection(fantasy_unlocked(state)))
       IN  Step(_start_random_run(App, LengthDraw(rnd.seed), GenreDraw(rnd.seed, n), rnd))

StartManualRun ==
    \E pick \in ManualPicks : \E rnd \in SeedRnds :
       Step(_start_manual_run(App, pick[1], pick[2], rnd))

PerformHunt ==
    \E t \in CheeseTypes : \E rnd \in HuntRnds(state) :
          Step(_perform_hunt(App, Some(t), rnd))

BatchHunt ==
    \E t \in CheeseTypes : \E rnds \in BatchRnds(state) :
          Step(_batch_hunt(App, t, rnds))

ChooseNextChapter ==
    \E choice \in ChoiceInputs(state) : \E rnd \in SeedRnds :
          Step(_choose_next_chapter(App, choice, rnd))

RerollChapterChoices ==
    \E rnd \in SeedRnds : Step(_reroll_chapter_choices(App, rnd))

ExtendPostscript == Step(extend_postscript_button(App))

LoadSnapshot ==
    \E n \in 1..Len(SnapshotFiles) : Step(_load_snapshot(App, SnapshotFiles[n], n))

DropValueChanged ==
    \E d \in DropEdits : Step(_drop_value_changed(App, d[1], d[2], d[3]))

AddDropToEnemy ==
    \E d \in DropAdds : Step(_add_drop_to_enemy(App, d[1], d[2]))

Undo == Step(_undo(App))

Redo == Step(_redo(App))

Next ==
    \/ EntryChanged
    \/ TypeQuantity
    \/ SanitizeQuantity
    \/ Craft
    \/ ToggleCC
    \/ StartRandomRun
    \/ StartManualRun
    \/ PerformHunt
    \/ BatchHunt
    \/ ChooseNextChapter
    \/ RerollChapterChoices
    \/ ExtendPostscript
    \/ LoadSnapshot
    \/ DropValueChanged
    \/ AddDropToEnemy
    \/ Undo
    \/ Redo

Spec == Init /\ [][Next]_vars

---------------------------------------------------------------------------
(* The program without snapshot load.  A run takes at least 70 hunts, so   *)
(* behaviours start from the fresh application or from a checkpoint: the   *)
(* application after a fixed sequence of handler calls from the fresh one, *)
(* computed with the handlers themselves (its history included).           *)

Perform(a, o) ==
    CASE o.op = "entry" -> _entry_changed(a, o.cat, o.key, o.text)
      [] o.op = "start" -> _start_random_run(a, o.li, o.gi, [NoRnd EXCEPT !.seed = o.seed])
      [] o.op = "hunt" -> _perform_hunt(a, Some(o.tier), [NoRnd EXCEPT !.u = o.u])
      [] o.op = "batch" -> _batch_hunt(a, o.tier, [i \in 1..10 |-> NoRnd])
      [] o.op = "extend" -> extend_postscript_button(a)
      [] o.op = "choose" ->
           _choose_next_chapter(a, Some(a.state.pending_chapter_choices[o.i]),
                                [NoRnd EXCEPT !.seed = o.seed])

RECURSIVE RunOps(_, _, _)
RunNext(b, ops, i) == IF b.last.op = "init" THEN b ELSE RunOps(b, ops, i + 1)

RunOps(a, ops, i) == IF i > Len(ops) THEN a ELSE RunNext(Perform(a, ops[i]), ops, i)

Entry(cat, key, text) == [op |-> "entry", cat |-> cat, key |-> key, text |-> text]

StockOps ==
    << Entry("resources", "T1 cheese", "250"), Entry("resources", "T2 cheese", "40"),
       Entry("resources", "T3 cheese", "40"), Entry("resources", "mallets", "40"),
       Entry("consumables", "CC", "3") >>

NotorietyOps == [i \in 1..Len(BASE_GENRES) |-> Entry("notoriety", BASE_GENRES[i], "85")]

ChapterOps == << [op |-> "batch", tier |-> "T1"], [op |-> "choose", i |-> 1, seed |-> 0] >>

NineHunts == [i \in 1..9 |-> [op |-> "hunt", tier |-> "T1", u |-> 0]]

(* Idle and stocked, the bonus genre locked / unlockable.                  *)
StockedApp == RunOps(FreshApp, StockOps, 1)
EligibleApp == RunOps(StockedApp, NotorietyOps, 1)
(* Chapter 1 just begun (length 10, Fantasy): choices locked.              *)
BegunApp == RunOps(EligibleApp, <<[op |-> "start", li |-> 1, gi |-> 6, seed |-> 0]>>, 1)
(* Chapter 1 begun without the bonus genre (length 20, Comedy).            *)
PlainRunApp == RunOps(StockedApp, <<[op |-> "start", li |-> 2, gi |-> 3, seed |-> 7]>>, 1)
(* Chapter 1 complete: choices unlocked.                                   *)
BetweenApp == RunOps(BegunApp, <<[op |-> "batch", tier |-> "T1"]>>, 1)
(* Chapter 6, one hunt short of its length.                                *)
LastChapterApp ==
    RunOps(BegunApp, ChapterOps \o ChapterOps \o ChapterOps \o ChapterOps \o ChapterOps
                     \o NineHunts, 1)
(* Postscript, extended, one hunt short of its length.                     *)
PostscriptOps ==
    << [op |-> "hunt", tier |-> "T1", u |-> 0], [op |-> "extend"] >>
    \o NineHunts \o SubSeq(NineHunts, 1, 3)

PostscriptApp == RunOps(LastChapterApp, PostscriptOps, 1)

(* Postscript of the run without the bonus genre, one hunt short of its    *)
(* length.                                                                 *)
PlainPostscriptApp ==
    RunOps(PlainRunApp, <<[op |-> "batch", tier |-> "T1"]>>
                        \o ChapterOps \o ChapterOps \o ChapterOps \o ChapterOps
                        \o ChapterOps \o <<[op |-> "batch", tier |-> "T1"]>>
                        \o NineHunts, 1)

Checkpoints ==
    {FreshApp, StockedApp, EligibleApp, BegunApp, PlainRunApp, BetweenApp,
     LastChapterApp, PostscriptApp, PlainPostscriptApp}

InitNoLoad == \E a \in Checkpoints : Starts(a, MaxSteps - CheckpointSteps)

NextNoLoad ==
    \/ EntryChanged
    \/ TypeQuantity
    \/ SanitizeQuantity
    \/ Craft
    \/ ToggleCC
    \/ StartRandomRun
    \/ StartManualRun
    \/ PerformHunt
    \/ BatchHunt
    \/ ChooseNextChapter
    \/ RerollChapterChoices
    \/ ExtendPostscript
    \/ DropValueChanged
    \/ AddDropToEnemy
    \/ Undo
    \/ Redo

SpecNoLoad == InitNoLoad /\ [][NextNoLoad]_vars

---------------------------------------------------------------------------
(* The program with its own snapshot files: Save writes the file, Load     *)
(* reads the file the application wrote last.  Behaviours start idle, in a *)
(* chapter with locked choices, between chapters or in the postscript.     *)

SaveCheckpoints == {StockedApp, BegunApp, BetweenApp, PostscriptApp}

InitSave == \E a \in SaveCheckpoints : Starts(a, MaxSteps - CheckpointSteps)

SaveSnapshot ==
    /\ steps < MaxSteps
    /\ file' = Some(to_dict(state))
    /\ Becomes(_save_snapshot(App))

LoadSaved == Step(_load_snapshot(App, file, 0))

NextSave ==
    \/ EntryChanged
    \/ TypeQuantity
    \/ SanitizeQuantity
    \/ Craft
    \/ ToggleCC
    \/ StartRandomRun
    \/ StartManualRun
    \/ PerformHunt
    \/ BatchHunt
    \/ ChooseNextChapter
    \/ RerollChapterChoices
    \/ ExtendPostscript
    \/ DropValueChanged
    \/ AddDropToEnemy
    \/ Undo
    \/ Redo
    \/ SaveSnapshot
    \/ LoadSaved

SpecSave == InitSave /\ [][NextSave]_vars

---------------------------------------------------------------------------
(* Play only: from the fresh application, crafting (with its quantity      *)
(* entry) and the run operations (with the CC toggle); no field or loot    *)
(* table edit, no snapshot, no undo or redo.                               *)

NextPlay ==
    \/ TypeQuantity
    \/ SanitizeQuantity
    \/ Craft
    \/ ToggleCC
    \/ StartRandomRun
    \/ StartManualRun
    \/ PerformHunt
    \/ BatchHunt
    \/ ChooseNextChapter
    \/ RerollChapterChoices
    \/ ExtendPostscript

SpecPlay == Init /\ [][NextPlay]_vars

---------------------------------------------------------------------------
(* Properties                                                              *)

(* The state before the latest commit: the top of the undo stack.          *)
Before == undo[Len(undo)]

(* C1: in every reachable state, whatever the operations that led to it    *)
(* (hunts, run control, notoriety edits, snapshot load, undo, redo), every *)
(* base genre has a notoriety, and it lies in 0..200.                      *)
C1_NotorietyInRange ==
    \A g \in BaseGenreSet :
       /\ g \in DOMAIN state.notoriety
       /\ 0 <= state.notoriety[g]
       /\ state.notoriety[g] <= 200

(* A postscript hunt drew Romance while Romance already stood at 200: the  *)
(* gain was capped, and Tragedy decayed by one.                            *)
C1_CappedHunt ==
    /\ last.op = "perform_hunt" /\ last.commits = 1
    /\ Before.chapter_position = 7
    /\ Before.notoriety["Romance"] = 200
    /\ state.notoriety["Romance"] = 200
    /\ state.notoriety["Tragedy"] = Before.notoriety["Tragedy"] - 1

(* C2: whenever a handler commits a state S2 over the current state S1,    *)
(* an undo makes the current state S1 again, in every field, and a redo    *)
(* after that undo makes it S2 again, in every field.                      *)
C2_CommitUndoRedo ==
    [][(last'.commits = 1 /\ last'.op # "batch_hunt") =>
          LET undone == _undo(App')
              redone == _redo(undone)
          IN  /\ undone.last.msg = "" /\ undone.state = state
              /\ redone.last.msg = "" /\ redone.state = state'
              /\ redone.undo = undo' /\ redone.redo = redo']_vars

(* A commit, its undo and its redo have just been performed in turn.       *)
C2_Redone ==
    /\ last.op = "redo" /\ last.msg = "" /\ last.redo_before = 1
    /\ steps = 3 /\ Len(undo) = 1 /\ redo = << >>
    /\ state # Before

(* C3: after any commit the redo stack is empty, also when the commit      *)
(* followed an undo; a redo called right then fails and leaves the current *)
(* state and both stacks as they are.                                      *)
C3_CommitClearsRedo ==
    last.commits > 0 =>
       /\ redo = << >>
       /\ HM_redo(Hist(App)).ret = None
       /\ _redo(App).last.msg = "Redo"
       /\ _redo(App).state = state
       /\ _redo(App).undo = undo
       /\ _redo(App).redo = redo

(* A commit made while the redo stack held an undone state.                *)
C3_CommitAfterUndo == last.commits > 0 /\ last.redo_before > 0

(* C4: undo with an empty undo stack and redo with an empty redo stack     *)
(* fail: they return no state, report it, and leave the current state, the *)
(* undo stack and the redo stack unchanged.                                *)
C4_EmptyStackFails ==
    [][/\ (last'.op = "undo" /\ undo = << >>) =>
            /\ HM_undo(Hist(App)).ret = None
            /\ last'.msg = "Undo"
            /\ state' = state /\ undo' = undo /\ redo' = redo
       /\ (last'.op = "redo" /\ redo = << >>) =>
            /\ HM_redo(Hist(App)).ret = None
            /\ last'.msg = "Redo"
            /\ state' = state /\ undo' = undo /\ redo' = redo]_vars

(* An undo has failed on an empty undo stack while the redo stack was      *)
(* empty as well.                                                          *)
C4_UndoFailed ==
    last.op = "undo" /\ last.msg = "Undo" /\ undo = << >> /\ redo = << >>

(* The amount of material k held in state s.                               *)
Amount(s, k) ==
    IF k \in DOMAIN s.resources THEN s.resources[k]
    ELSE IF k \in DOMAIN s.consumables THEN s.consumables[k]
    ELSE 0

AllAbove80(s) == \A g \in BaseGenreSet : s.notoriety[g] > 80

RunOpsNames ==
    {"perform_hunt", "batch_hunt", "reroll_chapter_choices", "choose_next_chapter",
     "extend_postscript", "entry_changed"}

(* C5: a run start, random or manual, sets run_fantasy_available to true   *)
(* exactly when every base genre's notoriety is above 80 at that moment;   *)
(* while the run lasts, no hunt, batch, reroll, choice, extension or edit  *)
(* changes it, whatever they do to notoriety.                              *)
C5_FantasyFixedAtStart ==
    [][/\ (last'.op \in {"start_random_run", "start_manual_run"} /\ last'.commits = 1) =>
            /\ state.chapter_position = 0
            /\ state'.chapter_position = 1
            /\ state'.run_fantasy_available = AllAbove80(state)
       /\ (/\ last'.op \in RunOpsNames
           /\ state.chapter_position # 0
           /\ state'.chapter_position # 0) =>
            state'.run_fantasy_available = state.run_fantasy_available]_vars

(* A run was started with every genre above 80, and an edit then took a    *)
(* genre down: the run keeps the bonus genre.                              *)
C5_EditedAfterStart ==
    /\ last.op = "entry_changed" /\ last.commits = 1
    /\ Len(undo) >= 2
    /\ undo[Len(undo) - 1].chapter_position = 0
    /\ AllAbove80(undo[Len(undo) - 1])
    /\ Before.chapter_position = 1
    /\ state.chapter_position = 1
    /\ state.run_fantasy_available
    /\ ~AllAbove80(state)

(* The quantity a text in the quantity field stands for, when it stands    *)
(* for a positive integer.                                                 *)
QuantityTyped == ("1" :> 1) @@ ("2" :> 2) @@ (" 2 " :> 2) @@ ("3" :> 3)

UnitNet(recipe, k) ==
    (IF k \in DOMAIN recipe.outputs THEN recipe.outputs[k] ELSE 0)
    - (IF k \in DOMAIN recipe.costs THEN recipe.costs[k] ELSE 0)

(* C6: crafting with a quantity q >= 1 in the field commits exactly once;  *)
(* every material's amount changes by q times the recipe's unit output     *)
(* minus q times its unit cost (so by nothing for a material the recipe    *)
(* does not name), and no other field of the state changes.                *)
C6_CraftLinear ==
    [][(last'.op = "craft" /\ quantity_var \in DOMAIN QuantityTyped) =>
          LET q == QuantityTyped[quantity_var]
              recipe == RECIPES[last'.arg.num]
          IN  /\ last'.commits = 1 /\ last'.msg = ""
              /\ last'.arg.num \in 1..Len(RECIPES)
              /\ undo' = Append(undo, state)
              /\ \A k \in ResourceSet \cup ConsumableSet :
                    Amount(state', k) - Amount(state, k) = Amt(q * UnitNet(recipe, k))
              /\ DOMAIN state'.resources = DOMAIN state.resources
              /\ DOMAIN state'.consumables = DOMAIN state.consumables
              /\ [state' EXCEPT !.resources = state.resources,
                                !.consumables = state.consumables] = state]_vars

(* Three mallets have been crafted at once.                                *)
C6_CraftedThree ==
    /\ last.op = "craft" /\ last.commits = 1 /\ last.arg.text = "3"
    /\ last.arg.num = 5
    /\ state.resources["mallets"] = Before.resources["mallets"] + Amt(3)
    /\ state.resources["Machinery"] = Before.resources["Machinery"] - Amt(90)

(* C7: crafting with 0, a negative number or a non-integer in the quantity *)
(* field is rejected: the state and both stacks stay as they are and the   *)
(* quantity field is reset to 1.                                           *)
C7_CraftRejected ==
    [][(last'.op = "craft" /\ quantity_var \in {"0", "-1", "1.5"}) =>
          /\ last'.msg = "Invalid quantity"
          /\ last'.commits = 0
          /\ state' = state /\ undo' = undo /\ redo' = redo
          /\ quantity_var' = "1"]_vars

(* A craft has been rejected and has reset the quantity field, with        *)
(* something on the undo stack.                                            *)
C7_RejectedAndReset ==
    /\ last.op = "craft" /\ last.msg = "Invalid quantity"
    /\ quantity_var = "1" /\ undo # << >>

(* The drop table used for an enemy in state s.                            *)
TableOf(s, enemy) ==
    LET own == IF enemy \in DOMAIN s.enemy_drops THEN s.enemy_drops[enemy] ELSE << >>
    IN  IF DOMAIN own # {} THEN own
        ELSE IF enemy \in DOMAIN DEFAULT_ENEMY_DROPS THEN DEFAULT_ENEMY_DROPS[enemy]
        ELSE << >>

Expected(table, k, m) ==
    IF k \notin DOMAIN table THEN 0
    ELSE IF k \in {"Gold", "Diamond"} THEN table[k]
    ELSE table[k] * m

LootMultipliers == 1..3

(* The handlers that write enemy_drops, and the construction.              *)
TableWriters == {"init", "load_snapshot", "drop_value_changed", "add_drop_to_enemy"}

(* From before to after, every material has grown by what the table and    *)
(* the multiplier m give.                                                  *)
AddsExpected(before, after, table, m) ==
    \A k \in ResourceSet \cup ConsumableSet \cup DOMAIN table :
       Amount(after, k) - Amount(before, k) = Expected(table, k, m)

(* C8: applying an enemy's loot with multiplier m adds the table amount    *)
(* for Gold and Diamond, unscaled, and the table amount times m for any    *)
(* other material; with the default table, T2 mouse loot at m = 2 adds     *)
(* 16500 Gold and 2 x 2.43 Machinery.  A chapter hunt changes the          *)
(* materials it does not spend by these amounts.  (The tables are those of *)
(* every state a handler that writes enemy_drops has produced.)            *)
C8_LootMultiplier ==
    /\ last.op \in TableWriters =>
          \A enemy \in DOMAIN state.enemy_drops : \A m \in LootMultipliers :
             AddsExpected(state, _apply_enemy_loot(state, enemy, m).s,
                          TableOf(state, enemy), m)
    /\ LET after == _apply_enemy_loot(FreshState, "T2 mouse", 2).s
       IN  /\ after.consumables["Gold"] = Amt(16500)
           /\ after.resources["Machinery"] = 2 * 243
    /\ (/\ last.op = "perform_hunt" /\ last.commits = 1
        /\ Before.chapter_position \in 1..TOTAL_CHAPTERS
        /\ Before.current_chapter_genre # None) =>
          LET rule == CHEESE_HUNT_RULES[last.arg.key]
              table == TableOf(Before, rule.chapter_enemy)
              m == IF cc_enabled THEN 2 ELSE 1
          IN  \A k \in DOMAIN table \ {rule.resource, "CC"} :
                 Amount(state, k) - Amount(Before, k) = Expected(table, k, m)

(* A T2 chapter hunt with the multiplier on has added 16500 Gold and       *)
(* 4.86 Machinery.                                                         *)
C8_DoubledHunt ==
    /\ last.op = "perform_hunt" /\ last.commits = 1 /\ last.arg.key = "T2"
    /\ cc_enabled
    /\ Before.chapter_position \in 1..TOTAL_CHAPTERS
    /\ state.consumables["Gold"] - Before.consumables["Gold"] = Amt(16500)
    /\ state.resources["Machinery"] - Before.resources["Machinery"] = 486

(* choices is empty, or holds three entries with each length of            *)
(* CHAPTER_LENGTHS once.                                                   *)
NoneOrOnePerLength(choices) ==
    \/ choices = << >>
    \/ /\ Len(choices) = 3
       /\ \A length \in {10, 20, 30} :
             Cardinality({i \in 1..Len(choices) : choices[i].length = length}) = 1

(* C9: in every state reached without loading a snapshot, the pending      *)
(* chapter choices are none, or exactly three with the lengths 10, 20 and  *)
(* 30 once each; so it is after a chapter begins and after every reroll.   *)
C9_ChoicesByLength ==
    /\ NoneOrOnePerLength(state.pending_chapter_choices)
    /\ (last.commits > 0 /\ last.op = "reroll_chapter_choices") =>
          Len(state.pending_chapter_choices) = 3
    /\ (/\ last.commits > 0
        /\ last.op \in {"start_random_run", "start_manual_run", "choose_next_chapter"}
        /\ state.chapter_position < TOTAL_CHAPTERS) =>
          Len(state.pending_chapter_choices) = 3

(* A reroll has replaced three choices by three others.                    *)
C9_Rerolled ==
    /\ last.op = "reroll_chapter_choices" /\ last.commits = 1
    /\ Len(Before.pending_chapter_choices) = 3
    /\ Len(state.pending_chapter_choices) = 3
    /\ state.pending_chapter_choices # Before.pending_chapter_choices

RECURSIVE Factorial(_)
Factorial(n) == IF n <= 1 THEN 1 ELSE n * Factorial(n - 1)

PairwiseDistinctGenres(choices) ==
    \A i, j \in 1..Len(choices) : i # j => choices[i].genre # choices[j].genre

HasFantasy(choices) == \E i \in 1..Len(choices) : choices[i].genre = FANTASY_GENRE

(* C10: the genres of the pending choices, which come from one generation, *)
(* are pairwise distinct, and Fantasy is among them only if                *)
(* run_fantasy_available is true; the same holds of a generation under any *)
(* outcome of the shuffle, with the bonus genre available or not.          *)
C10_DistinctGenres ==
    /\ PairwiseDistinctGenres(state.pending_chapter_choices)
    /\ HasFantasy(state.pending_chapter_choices) => state.run_fantasy_available
    /\ steps = MaxSteps - CheckpointSteps =>
          \A available \in BOOLEAN :
             \A seed \in 0..(Factorial(Len(AllGenresSeq)) - 1) :
                LET generated ==
                      _generate_next_chapter_choices(
                         [state EXCEPT !.run_fantasy_available = available],
                         [NoRnd EXCEPT !.seed = seed])
                IN  /\ Len(generated) = 3
                    /\ PairwiseDistinctGenres(generated)
                    /\ HasFantasy(generated) => available

(* A generation during a run with the bonus genre has put Fantasy among    *)
(* three distinct genres.                                                  *)
C10_FantasyOffered ==
    /\ last.commits = 1
    /\ last.op \in {"reroll_chapter_choices", "start_random_run", "start_manual_run",
                     "choose_next_chapter"}
    /\ state.pending_chapter_choices # Before.pending_chapter_choices
    /\ Len(state.pending_chapter_choices) = 3
    /\ HasFantasy(state.pending_chapter_choices)
    /\ state.run_fantasy_available

StartNames == {"start_random_run", "start_manual_run"}

(* C11: a run start, random or manual, is accepted only when               *)
(* chapter_position = 0; in any other phase it is rejected, and the state  *)
(* and both history stacks stay as they are.                               *)
C11_StartOnlyIdle ==
    [][last'.op \in StartNames =>
          /\ last'.commits > 0 => state.chapter_position = 0
          /\ state.chapter_position # 0 =>
                /\ last'.commits = 0
                /\ last'.msg = "Run in progress"
                /\ state' = state /\ undo' = undo /\ redo' = redo]_vars

(* A run start has been rejected during postscript.                        *)
C11_StartRejected ==
    /\ last.op \in StartNames /\ last.msg = "Run in progress"
    /\ state.chapter_position = 7

(* The genres a run with or without the bonus genre draws from.            *)
GenrePool(fantasy_available) ==
    BaseGenreSet \cup (IF fantasy_available THEN {FANTASY_GENRE} ELSE {})

(* C12: a random run start from idle is accepted; with L and G the length  *)
(* and genre it picks, the committed state has chapter_position = 1,       *)
(* length L in {10, 20, 30}, genre G from the run's pool, progress 0,      *)
(* three pending choices, the lock on, and the genre pages, the run's      *)
(* hunts and mallet spend at 0 with postscript_length = 10.                *)
C12_RandomStart ==
    [][(last'.op = "start_random_run" /\ state.chapter_position = 0) =>
          /\ last'.commits = 1
          /\ undo' = Append(undo, state)
          /\ state'.chapter_position = 1
          /\ last'.arg.num \in {10, 20, 30}
          /\ state'.current_chapter_length = Some(last'.arg.num)
          /\ last'.arg.key \in GenrePool(state'.run_fantasy_available)
          /\ state'.current_chapter_genre = Some(last'.arg.key)
          /\ state'.current_chapter_progress = 0
          /\ Len(state'.pending_chapter_choices) = 3
          /\ state'.pending_choices_locked
          /\ \A g \in AllGenreSet : state'.genre_pages[g] = 0
          /\ state'.current_run_hunts = 0
          /\ state'.run_mallets_spent = 0
          /\ state'.postscript_length = 10]_vars

(* A random start from an idle state that still held a finished run's      *)
(* pages, hunts, mallet spend and postscript length.                       *)
C12_StartedOverLeftovers ==
    /\ last.op = "start_random_run" /\ last.commits = 1
    /\ Before.chapter_position = 0
    /\ Before.genre_pages["Romance"] > 0
    /\ Before.current_run_hunts > 0
    /\ Before.run_mallets_spent > 0
    /\ Before.postscript_length # 10
    /\ state.chapter_position = 1

(* A rejected manual start of the app a has changed nothing.               *)
ManualStartRefused(a, length, genre, msg) ==
    /\ _start_manual_run(a, length, genre, NoRnd).last.msg = msg
    /\ _start_manual_run(a, length, genre, NoRnd).last.commits = 0
    /\ _start_manual_run(a, length, genre, NoRnd).state = a.state
    /\ _start_manual_run(a, length, genre, NoRnd).undo = a.undo
    /\ _start_manual_run(a, length, genre, NoRnd).redo = a.redo

(* C13: an accepted manual start takes exactly 30 mallets and adds 30 to   *)
(* run_mallets_spent (reset to 0 by the start) and to total_mallets_spent; *)
(* from idle it is rejected, with mallets, state and both stacks as they   *)
(* were, when fewer than 30 mallets are held or when the genre picked is   *)
(* Fantasy while some base genre's notoriety is 80 or less, and only then. *)
C13_ManualStart ==
    [][(last'.op = "start_manual_run" /\ state.chapter_position = 0) =>
          /\ last'.commits = 1 =>
                /\ state.resources["mallets"] >= Amt(30)
                /\ last'.arg.key = FANTASY_GENRE => AllAbove80(state)
                /\ state'.resources["mallets"] = state.resources["mallets"] - Amt(30)
                /\ state'.run_mallets_spent = 30
                /\ state'.total_mallets_spent = state.total_mallets_spent + 30
                /\ undo' = Append(undo, state)
          /\ last'.commits # 1 =>
                /\ last'.commits = 0
                /\ state' = state /\ undo' = undo /\ redo' = redo
                /\ \/ state.resources["mallets"] < Amt(30) /\ last'.msg = "Not enough Mallets"
                   \/ ~AllAbove80(state) /\ last'.msg = "Fantasy locked"
          /\ state.resources["mallets"] < Amt(30) =>
                \A pick \in ManualPicks :
                   ManualStartRefused(App, pick[1], pick[2], "Not enough Mallets")
          /\ (state.resources["mallets"] >= Amt(30) /\ ~AllAbove80(state)) =>
                \A length \in {10, 20, 30} :
                   ManualStartRefused(App, length, FANTASY_GENRE, "Fantasy locked")]_vars

(* A manual start has been paid for: 30 mallets gone, 30 spent in the run, *)
(* 30 more spent in total.                                                 *)
C13_ManualStartPaid ==
    /\ last.op = "start_manual_run" /\ last.commits = 1
    /\ Before.total_mallets_spent > 0
    /\ Before.run_mallets_spent > 0
    /\ state.resources["mallets"] = Before.resources["mallets"] - Amt(30)
    /\ state.run_mallets_spent = 30
    /\ state.total_mallets_spent = Before.total_mallets_spent + 30

(* C14: a hunt attempted while idle (chapter_position = 0) is rejected: no *)
(* cheese is spent, no counter or other field changes, and the history     *)
(* gets no entry.                                                          *)
C14_NoHuntWhileIdle ==
    [][(last'.op = "perform_hunt" /\ state.chapter_position = 0) =>
          /\ last'.commits = 0
          /\ last'.msg = "Not started"
          /\ state' = state /\ undo' = undo /\ redo' = redo]_vars

(* A hunt has been rejected while idle although cheese was held.           *)
C14_IdleHuntRejected ==
    /\ last.op = "perform_hunt" /\ last.msg = "Not started"
    /\ state.chapter_position = 0
    /\ state.resources["T1 cheese"] >= Amt(1)

(* The cheese resource of the tier the latest hunt used.                   *)
LastCheese == CHEESE_HUNT_RULES[last.arg.key].resource

(* C15 (as stated): an accepted hunt had at least 1 unit of its tier's     *)
(* cheese, so it leaves that cheese at 0 or more.                          *)
C15_HuntNeedsOneCheese ==
    (last.op = "perform_hunt" /\ last.commits = 1) =>
       /\ Before.resources[LastCheese] >= Amt(1)
       /\ state.resources[LastCheese] >= 0

(* A hunt was accepted with half a unit of cheese and left the cheese      *)
(* below 0.                                                                *)
C15_CheeseBelowZero ==
    /\ last.op = "perform_hunt" /\ last.commits = 1
    /\ Before.resources[LastCheese] = 50
    /\ state.resources[LastCheese] = 0 - 50

(* C16 (amended): the lock does not forbid hunting.  In a chapter whose    *)
(* pending choices are locked, a hunt with cheese held is accepted and     *)
(* leaves the choices and the lock alone unless it completes the chapter;  *)
(* what forbids a hunt is a set of pending choices that is not locked: it  *)
(* is then rejected with no change.                                        *)
C16_LockAllowsHunt ==
    [][(/\ last'.op = "perform_hunt"
        /\ state.chapter_position \in 1..TOTAL_CHAPTERS
        /\ state.pending_chapter_choices # << >>) =>
          /\ ~state.pending_choices_locked =>
                /\ last'.commits = 0
                /\ last'.msg = "Select chapter"
                /\ state' = state /\ undo' = undo /\ redo' = redo
          /\ (state.pending_choices_locked /\ last'.commits = 0) =>
                /\ last'.msg \in {"Not enough cheese", "Invalid chapter"}
                /\ state' = state /\ undo' = undo /\ redo' = redo
          /\ (state.pending_choices_locked /\ last'.commits = 1) =>
                /\ state'.pending_chapter_choices = state.pending_chapter_choices
                /\ state'.current_chapter_progress # 0 => state'.pending_choices_locked]_vars

(* A hunt has been accepted while the choices were locked.                 *)
C16_HuntedWhileLocked ==
    /\ last.op = "perform_hunt" /\ last.commits = 1
    /\ Before.pending_choices_locked
    /\ Before.pending_chapter_choices # << >>
    /\ state.total_hunts = Before.total_hunts + 1

(* C16 (as stated): no hunt is accepted while pending_choices_locked is    *)
(* true.                                                                   *)
C16_LockForbidsHunt ==
    (last.op = "perform_hunt" /\ last.commits = 1) => ~Before.pending_choices_locked

(* C17: choose_next_chapter is rejected, with no state change and no       *)
(* history entry, whenever there are no pending choices or the choices are *)
(* locked; it takes effect only when choices exist and the lock is off.    *)
C17_ChooseNeedsUnlockedChoices ==
    [][last'.op = "choose_next_chapter" =>
          /\ (state.pending_chapter_choices = << >> \/ state.pending_choices_locked) =>
                /\ last'.commits = 0
                /\ state' = state /\ undo' = undo /\ redo' = redo
          /\ state.pending_choices_locked /\ state.pending_chapter_choices # << >> =>
                last'.msg = "Chapter in progress"
          /\ last'.commits # 0 =>
                /\ last'.commits = 1
                /\ state.pending_chapter_choices # << >>
                /\ ~state.pending_choices_locked
                /\ undo' = Append(undo, state)]_vars

(* A choice has been refused during a chapter, the choices being locked.   *)
C17_ChoiceRefusedWhileLocked ==
    /\ last.op = "choose_next_chapter" /\ last.commits = 0
    /\ last.msg = "Chapter in progress"
    /\ state.pending_choices_locked
    /\ Len(state.pending_chapter_choices) = 3

(* C18: an accepted choose_next_chapter with choice (L, G) from chapter    *)
(* p in 1..5 gives chapter p + 1 (never above 6), length L, genre G and    *)
(* progress 0; if p + 1 <= 5 there are three pending choices, locked, and  *)
(* if p + 1 = 6 there are no pending choices and the lock is off.          *)
C18_ChooseBeginsNext ==
    [][(/\ last'.op = "choose_next_chapter" /\ last'.commits = 1
        /\ state.chapter_position \in 1..(TOTAL_CHAPTERS - 1)) =>
          /\ \E i \in 1..Len(state.pending_chapter_choices) :
                state.pending_chapter_choices[i] =
                   [length |-> last'.arg.num, genre |-> last'.arg.key]
          /\ state'.chapter_position = state.chapter_position + 1
          /\ state'.chapter_position <= TOTAL_CHAPTERS
          /\ state'.current_chapter_length = Some(last'.arg.num)
          /\ state'.current_chapter_genre = Some(last'.arg.key)
          /\ state'.current_chapter_progress = 0
          /\ state'.chapter_position <= TOTAL_CHAPTERS - 1 =>
                /\ Len(state'.pending_chapter_choices) = 3
                /\ NoneOrOnePerLength(state'.pending_chapter_choices)
                /\ state'.pending_choices_locked
          /\ state'.chapter_position = TOTAL_CHAPTERS =>
                /\ state'.pending_chapter_choices = << >>
                /\ ~state'.pending_choices_locked]_vars

(* The last chapter has been chosen from chapter 5.                        *)
C18_LastChapterChosen ==
    /\ last.op = "choose_next_chapter" /\ last.commits = 1
    /\ Before.chapter_position = 5 /\ state.chapter_position = 6
    /\ state.current_chapter_length = Some(last.arg.num)
    /\ state.current_chapter_progress = 0
    /\ Before.pending_chapter_choices # << >>
    /\ state.pending_chapter_choices = << >>

(* What an accepted hunt of the given rule spends of material k.           *)
HuntSpends(rule, cc, k) ==
    (IF k = rule.resource THEN Amt(1) ELSE 0) + (IF cc /\ k = "CC" THEN Amt(1) ELSE 0)

(* C19: an accepted hunt with tier T in a numbered chapter with genre G    *)
(* spends exactly 1 of T's cheese, adds 1 to total_hunts and to            *)
(* current_run_hunts, adds T's page gain (25/50/125) to genre_pages[G],    *)
(* applies the loot of T's chapter enemy at the current multiplier, and    *)
(* leaves notoriety, the pages of every other genre, postscript_length and *)
(* the mallet-spend counters unchanged.  The net change of every material  *)
(* is the loot minus what the hunt spends; with a table that does not drop *)
(* T's cheese, the cheese goes down by exactly 1.                          *)
C19_ChapterHunt ==
    [][(/\ last'.op = "perform_hunt" /\ last'.commits = 1
        /\ state.chapter_position \in 1..TOTAL_CHAPTERS
        /\ state.current_chapter_genre # None) =>
          /\ \A k \in ResourceSet \cup ConsumableSet
                       \cup DOMAIN TableOf(state, CHEESE_HUNT_RULES[last'.arg.key].chapter_enemy) :
                Amount(state', k) - Amount(state, k) =
                   Expected(TableOf(state, CHEESE_HUNT_RULES[last'.arg.key].chapter_enemy), k,
                            IF cc_enabled THEN _cc_multiplier ELSE 1)
                   - HuntSpends(CHEESE_HUNT_RULES[last'.arg.key], cc_enabled, k)
          /\ CHEESE_HUNT_RULES[last'.arg.key].resource \notin
                DOMAIN TableOf(state, CHEESE_HUNT_RULES[last'.arg.key].chapter_enemy) =>
                state'.resources[CHEESE_HUNT_RULES[last'.arg.key].resource] =
                   state.resources[CHEESE_HUNT_RULES[last'.arg.key].resource] - Amt(1)
          /\ state'.total_hunts = state.total_hunts + 1
          /\ state'.current_run_hunts = state.current_run_hunts + 1
          /\ CHEESE_HUNT_RULES[last'.arg.key].page_gain \in {25, 50, 125}
          /\ \A g \in DOMAIN state'.genre_pages :
                state'.genre_pages[g] =
                   (IF g \in DOMAIN state.genre_pages THEN state.genre_pages[g] ELSE 0)
                   + (IF Some(g) = state.current_chapter_genre
                      THEN CHEESE_HUNT_RULES[last'.arg.key].page_gain ELSE 0)
          /\ state.current_chapter_genre[1] \in DOMAIN state'.genre_pages
          /\ state'.notoriety = state.notoriety
          /\ state'.postscript_length = state.postscript_length
          /\ state'.run_mallets_spent = state.run_mallets_spent
          /\ state'.total_mallets_spent = state.total_mallets_spent
          /\ state'.enemy_drops = state.enemy_drops]_vars

(* A T1 hunt in a chapter has spent 1 cheese and added 25 pages to the     *)
(* chapter's genre.                                                        *)
C19_ChapterHuntPaged ==
    /\ last.op = "perform_hunt" /\ last.commits = 1 /\ last.arg.key = "T1"
    /\ Before.chapter_position \in 1..TOTAL_CHAPTERS
    /\ Before.current_chapter_genre = Some("Comedy")
    /\ state.genre_pages["Comedy"] = Before.genre_pages["Comedy"] + 25
    /\ state.resources["T1 cheese"] = Before.resources["T1 cheese"] - Amt(1)
    /\ state.total_hunts = Before.total_hunts + 1

(* C20: in a chapter at position p <= 5 with target length L, the hunt     *)
(* that brings the progress to L completes the chapter in the same commit: *)
(* the position stays p, length and genre become absent, progress is 0,    *)
(* the lock is off and exactly 3 pending choices are available; a hunt     *)
(* that leaves the progress below L does none of this.                     *)
C20_CompletionOnLastHunt ==
    [][(/\ last'.op = "perform_hunt" /\ last'.commits = 1
        /\ state.chapter_position \in 1..(TOTAL_CHAPTERS - 1)
        /\ state.current_chapter_length # None) =>
          /\ state'.chapter_position = state.chapter_position
          /\ undo' = Append(undo, state)
          /\ state.current_chapter_progress + 1 >= state.current_chapter_length[1] =>
                /\ state'.current_chapter_length = None
                /\ state'.current_chapter_genre = None
                /\ state'.current_chapter_progress = 0
                /\ ~state'.pending_choices_locked
                /\ Len(state'.pending_chapter_choices) = 3
          /\ state.current_chapter_progress + 1 < state.current_chapter_length[1] =>
                /\ state'.current_chapter_length = state.current_chapter_length
                /\ state'.current_chapter_genre = state.current_chapter_genre
                /\ state'.current_chapter_progress = state.current_chapter_progress + 1
                /\ state'.pending_choices_locked = state.pending_choices_locked
                /\ state'.pending_chapter_choices = state.pending_chapter_choices]_vars

(* The tenth hunt of a chapter of length 10 has completed the chapter.     *)
C20_ChapterCompleted ==
    /\ last.op = "perform_hunt" /\ last.commits = 1
    /\ Before.chapter_position = 5 /\ state.chapter_position = 5
    /\ Before.current_chapter_length = Some(10)
    /\ Before.current_chapter_progress = 9
    /\ Before.pending_choices_locked
    /\ state.current_chapter_length = None /\ state.current_chapter_genre = None
    /\ state.current_chapter_progress = 0
    /\ ~state.pending_choices_locked
    /\ Len(state.pending_chapter_choices) = 3

(* From before to after, the pages of genre have grown by gain and no      *)
(* other genre's pages have changed.                                       *)
PagesGrewOnlyBy(before, after, genre, gain) ==
    /\ genre \in DOMAIN after.genre_pages
    /\ \A g \in DOMAIN after.genre_pages :
          after.genre_pages[g] =
             (IF g \in DOMAIN before.genre_pages THEN before.genre_pages[g] ELSE 0)
             + (IF g = genre THEN gain ELSE 0)

(* C21: the hunt that brings the progress of chapter 6 to its length       *)
(* enters the postscript in the same commit: position 7, length and genre  *)
(* absent, progress 0, no pending choices, lock off, postscript_extended   *)
(* false; postscript_length is left as it was and genre_pages as the hunt  *)
(* itself left them.  A hunt that leaves the progress below the length     *)
(* stays in chapter 6.                                                     *)
C21_LastChapterToPostscript ==
    [][(/\ last'.op = "perform_hunt" /\ last'.commits = 1
        /\ state.chapter_position = TOTAL_CHAPTERS
        /\ state.current_chapter_length # None
        /\ state.current_chapter_genre # None) =>
          /\ undo' = Append(undo, state)
          /\ state'.postscript_length = state.postscript_length
          /\ PagesGrewOnlyBy(state, state', state.current_chapter_genre[1],
                             CHEESE_HUNT_RULES[last'.arg.key].page_gain)
          /\ state.current_chapter_progress + 1 >= state.current_chapter_length[1] =>
                /\ state'.chapter_position = 7
                /\ state'.current_chapter_length = None
                /\ state'.current_chapter_genre = None
                /\ state'.current_chapter_progress = 0
                /\ state'.pending_chapter_choices = << >>
                /\ ~state'.pending_choices_locked
                /\ ~state'.postscript_extended
          /\ state.current_chapter_progress + 1 < state.current_chapter_length[1] =>
                /\ state'.chapter_position = TOTAL_CHAPTERS
                /\ state'.current_chapter_progress = state.current_chapter_progress + 1
                /\ state'.current_chapter_length = state.current_chapter_length]_vars

(* The last hunt of chapter 6 has entered the postscript.                  *)
C21_PostscriptEntered ==
    /\ last.op = "perform_hunt" /\ last.commits = 1
    /\ Before.chapter_position = TOTAL_CHAPTERS
    /\ Before.current_chapter_progress + 1 = Before.current_chapter_length[1]
    /\ state.chapter_position = 7
    /\ state.current_chapter_progress = 0
    /\ state.current_chapter_length = None
    /\ state.postscript_length = 10
    /\ \E g \in DOMAIN state.genre_pages : state.genre_pages[g] > 0

(* C22: the postscript hunt that brings the progress to postscript_length  *)
(* returns the run to idle: position 0, postscript_length 10,              *)
(* run_fantasy_available false, current_run_hunts 0, run_mallets_spent 0,  *)
(* all genre_pages 0; total_hunts, total_mallets_spent and                 *)
(* total_diamonds_gain keep the values that hunt produced.  A postscript   *)
(* hunt that leaves the progress below the length resets nothing.          *)
C22_FinishPostscript ==
    [][(/\ last'.op = "perform_hunt" /\ last'.commits = 1
        /\ state.chapter_position = 7) =>
          /\ state'.total_hunts = state.total_hunts + 1
          /\ state'.total_mallets_spent = state.total_mallets_spent
          /\ state'.total_diamonds_gain - state.total_diamonds_gain =
                Amount(state', "Diamond") - Amount(state, "Diamond")
          /\ state'.total_diamonds_gain >= state.total_diamonds_gain
          /\ state.current_chapter_progress + 1 >= state.postscript_length =>
                /\ state'.chapter_position = 0
                /\ state'.current_chapter_progress = 0
                /\ state'.postscript_length = 10
                /\ ~state'.run_fantasy_available
                /\ state'.current_run_hunts = 0
                /\ state'.run_mallets_spent = 0
                /\ DOMAIN state'.genre_pages = AllGenreSet
                /\ \A g \in AllGenreSet : state'.genre_pages[g] = 0
          /\ state.current_chapter_progress + 1 < state.postscript_length =>
                /\ state'.chapter_position = 7
                /\ state'.current_chapter_progress = state.current_chapter_progress + 1
                /\ state'.postscript_length = state.postscript_length
                /\ state'.run_fantasy_available = state.run_fantasy_available
                /\ state'.current_run_hunts = state.current_run_hunts + 1
                /\ state'.run_mallets_spent = state.run_mallets_spent]_vars

(* The last hunt of an extended postscript has returned the run to idle,   *)
(* the lifetime counters standing.                                         *)
C22_RunFinished ==
    /\ last.op = "perform_hunt" /\ last.commits = 1
    /\ Before.chapter_position = 7 /\ state.chapter_position = 0
    /\ Before.postscript_length = 13 /\ state.postscript_length = 10
    /\ Before.run_fantasy_available /\ ~state.run_fantasy_available
    /\ Before.run_mallets_spent = 30 /\ state.run_mallets_spent = 0
    /\ state.total_mallets_spent = 30
    /\ Before.current_run_hunts > 0 /\ state.current_run_hunts = 0
    /\ state.total_hunts = Before.total_hunts + 1
    /\ state.total_diamonds_gain > 0
    /\ Before.genre_pages["Romance"] > 0 /\ state.genre_pages["Romance"] = 0

ExtensionRefused(a, r) ==
    /\ r.last.commits = 0
    /\ r.state = a.state /\ r.undo = a.undo /\ r.redo = a.redo

(* The result r of an extension on a has taken 30 mallets, added 3 to the  *)
(* length and 30 to both spend counters, in one commit.                    *)
ExtensionPaid(a, r) ==
    /\ r.last.commits = 1
    /\ r.undo = Append(a.undo, a.state)
    /\ r.state.resources["mallets"] = a.state.resources["mallets"] - Amt(30)
    /\ r.state.postscript_length = a.state.postscript_length + 3
    /\ r.state.postscript_extended
    /\ r.state.run_mallets_spent = a.state.run_mallets_spent + 30
    /\ r.state.total_mallets_spent = a.state.total_mallets_spent + 30
    /\ r.state.current_chapter_progress = a.state.current_chapter_progress
    /\ r.state.chapter_position = a.state.chapter_position

(* C24: an extension attempted with fewer than 30 mallets is rejected:     *)
(* mallets, postscript_length, postscript_extended, the spend counters and *)
(* the undo and redo stacks are unchanged; with at least 30 mallets in the *)
(* postscript it takes exactly 30 mallets, adds exactly 3 to               *)
(* postscript_length and 30 to both spend counters, and leaves             *)
(* current_chapter_progress alone.  This holds of the button and of the    *)
(* handler behind it.                                                      *)
C24_ExtendFee ==
    [][/\ last'.op = "extend_postscript" =>
             /\ state.resources["mallets"] < Amt(30) => ExtensionRefused(App, App')
             /\ last'.commits # 0 =>
                   /\ state.resources["mallets"] >= Amt(30)
                   /\ ExtensionPaid(App, App')
             /\ extend_state(state) => last'.commits = 1
       /\ state.resources["mallets"] < Amt(30) =>
             ExtensionRefused(App, _extend_postscript(App))
       /\ (state.chapter_position = 7 /\ state.resources["mallets"] >= Amt(30)) =>
             ExtensionPaid(App, _extend_postscript(App))]_vars

(* An extension has been refused in a postscript not yet extended, for     *)
(* want of mallets.                                                        *)
C24_ExtensionUnaffordable ==
    /\ last.op = "extend_postscript" /\ last.commits = 0
    /\ state.chapter_position = 7
    /\ ~state.postscript_extended
    /\ state.postscript_length = 10
    /\ state.resources["mallets"] < Amt(30)

(* C25: a reroll is accepted whenever pending choices exist and at least 3 *)
(* mallets are held, locked or not; it takes exactly 3 mallets, adds 3 to  *)
(* both spend counters, replaces the choices by three generated ones, and  *)
(* leaves the lock, the position, the chapter's length, genre and progress *)
(* and genre_pages unchanged; with no choices or fewer than 3 mallets it   *)
(* is rejected with no change.                                             *)
C25_Reroll ==
    [][last'.op = "reroll_chapter_choices" =>
          /\ (state.pending_chapter_choices # << >> /\ state.resources["mallets"] >= Amt(3)) =>
                /\ last'.commits = 1
                /\ undo' = Append(undo, state)
                /\ state'.resources["mallets"] = state.resources["mallets"] - Amt(3)
                /\ state'.run_mallets_spent = state.run_mallets_spent + 3
                /\ state'.total_mallets_spent = state.total_mallets_spent + 3
                /\ Len(state'.pending_chapter_choices) = 3
                /\ NoneOrOnePerLength(state'.pending_chapter_choices)
                /\ PairwiseDistinctGenres(state'.pending_chapter_choices)
                /\ state'.pending_choices_locked = state.pending_choices_locked
                /\ state'.chapter_position = state.chapter_position
                /\ state'.current_chapter_length = state.current_chapter_length
                /\ state'.current_chapter_genre = state.current_chapter_genre
                /\ state'.current_chapter_progress = state.current_chapter_progress
                /\ state'.genre_pages = state.genre_pages
          /\ (state.pending_chapter_choices = << >> \/ state.resources["mallets"] < Amt(3)) =>
                /\ last'.commits = 0
                /\ state' = state /\ undo' = undo /\ redo' = redo]_vars

(* Locked choices have been rerolled into different ones during a chapter. *)
C25_RerolledWhileLocked ==
    /\ last.op = "reroll_chapter_choices" /\ last.commits = 1
    /\ Before.pending_choices_locked /\ state.pending_choices_locked
    /\ Before.current_chapter_length # None
    /\ state.pending_chapter_choices # Before.pending_chapter_choices
    /\ state.resources["mallets"] = Before.resources["mallets"] - Amt(3)

(* The latest call was an accepted hunt in the postscript.                 *)
PostscriptHunted ==
    /\ last.op = "perform_hunt" /\ last.commits = 1
    /\ Before.chapter_position = 7

(* From before to after, genre has gained (capped at 200) and every other  *)
(* genre has decayed by 1 with floor 0.                                    *)
GainedAndDecayed(before, after, genre, gain) ==
    \A g \in BaseGenreSet :
       after.notoriety[g] =
          IF g = genre THEN Min2(200, before.notoriety[g] + gain)
          ELSE Max2(0, before.notoriety[g] - 1)

(* From before to after, every genre's notoriety has dropped by 20 with    *)
(* floor 0.                                                                *)
AllDropped(before, after) ==
    \A g \in DOMAIN before.notoriety :
       after.notoriety[g] = Max2(0, before.notoriety[g] - 20)

(* C26 (as stated): a postscript hunt either drew Fantasy, or drew a base  *)
(* genre G: then notoriety[G] is min(200, old + the tier's gain) and every *)
(* other genre's notoriety is max(0, old - 1).                             *)
C26_NotorietyDecay ==
    PostscriptHunted =>
       \/ AllDropped(Before, state)
       \/ \E genre \in BaseGenreSet :
             GainedAndDecayed(Before, state, genre,
                              CHEESE_HUNT_RULES[last.arg.key].notoriety_gain)

(* A postscript hunt has raised Tragedy and left Comedy at 1.              *)
C26_DecayStopsAtOne ==
    /\ PostscriptHunted
    /\ state.notoriety["Tragedy"] > Before.notoriety["Tragedy"]
    /\ Before.notoriety["Comedy"] = 1
    /\ state.notoriety["Comedy"] = 1
    /\ state.notoriety["Suspense"] = Before.notoriety["Suspense"] - 1

(* From before to after, every material has changed by the enemy's loot at *)
(* the multiplier in force, less what a hunt of the rule spends.           *)
HuntDeltaIs(before, after, rule, cc, enemy) ==
    \A k \in ResourceSet \cup ConsumableSet \cup DOMAIN TableOf(before, enemy) :
       Amount(after, k) - Amount(before, k) =
          Expected(TableOf(before, enemy), k, IF cc THEN _cc_multiplier ELSE 1)
          - HuntSpends(rule, cc, k)

(* The hunt r made from a with the rule drew Fantasy correctly: the loot   *)
(* is the Ultimate MythWeaver's, not the Common Weaver's, and every        *)
(* genre's notoriety has dropped by 20 with floor 0.                       *)
FantasyHunt(a, r, rule) ==
    /\ r.last.commits = 1
    /\ HuntDeltaIs(a.state, r.state, rule, a.cc_enabled, rule.post_fantasy_enemy)
    /\ ~HuntDeltaIs(a.state, r.state, rule, a.cc_enabled, rule.post_enemy)
    /\ AllDropped(a.state, r.state)
    /\ \A g \in DOMAIN r.state.notoriety : r.state.notoriety[g] <= a.state.notoriety[g]

(* C27: in a postscript hunt whose drawn genre is Fantasy, the tier's      *)
(* Ultimate MythWeaver loot is applied, not the Common Weaver loot, and    *)
(* every base genre's notoriety becomes max(0, old - 20); no notoriety     *)
(* increases.  (Wherever a postscript hunt is made: that hunt under every  *)
(* outcome of the draw that gives Fantasy.)                                *)
C27_FantasyDraw ==
    [][(/\ last'.op = "perform_hunt" /\ last'.commits = 1
        /\ state.chapter_position = 7) =>
          \A rnd \in HuntRnds(state) :
             _select_genre_by_pages(state, rnd) = FANTASY_GENRE =>
                FantasyHunt(App, _perform_hunt(App, Some(last'.arg.key), rnd),
                            CHEESE_HUNT_RULES[last'.arg.key])]_vars

(* A postscript hunt has brought the Ultimate MythWeaver's diamond and     *)
(* lowered every notoriety by 20 or to 0.                                  *)
C27_UltimateLooted ==
    /\ PostscriptHunted
    /\ Before.genre_pages["Fantasy"] > 0
    /\ state.total_diamonds_gain = Before.total_diamonds_gain + 100
    /\ AllDropped(Before, state)
    /\ state.notoriety["Tragedy"] = Before.notoriety["Tragedy"] - 20
    /\ Before.notoriety["Comedy"] = 1 /\ state.notoriety["Comedy"] = 0

(* The genres with pages in state s.                                       *)
PagedGenres(s) == {g \in DOMAIN s.genre_pages : s.genre_pages[g] > 0}

(* The genres a postscript hunt can draw in state s.                       *)
Drawable(s) == {_select_genre_by_pages(s, rnd) : rnd \in HuntRnds(s)}

(* State s with no pages in any genre.                                     *)
Unpaged(s) == [s EXCEPT !.genre_pages = _default_genre_pages]

(* C28 (amended): in a postscript hunt, whenever some genre has pages the  *)
(* drawn genre has pages; when no genre has pages, each of the 6 genres    *)
(* can be drawn.  A postscript hunt adds no pages: it leaves genre_pages   *)
(* unchanged, except for the hunt that finishes the postscript, which      *)
(* resets all pages to 0.                                                  *)
C28_DrawByPages ==
    [][/\ state'.chapter_position = 7 =>
             /\ PagedGenres(state') # {} =>
                   (Drawable(state') # {} /\ Drawable(state') \subseteq PagedGenres(state'))
             /\ Drawable(Unpaged(state')) = AllGenreSet
       /\ (/\ last'.op = "perform_hunt" /\ last'.commits = 1
           /\ state.chapter_position = 7) =>
             IF state'.chapter_position = 7
             THEN state'.genre_pages = state.genre_pages
             ELSE /\ state'.chapter_position = 0
                  /\ state.current_chapter_progress + 1 >= state.postscript_length
                  /\ \A g \in DOMAIN state'.genre_pages : state'.genre_pages[g] = 0]_vars

(* A postscript hunt has drawn Tragedy, which has pages, and has left the  *)
(* pages as they were, some genres having none.                            *)
C28_PagedGenreDrawn ==
    /\ PostscriptHunted
    /\ state.chapter_position = 7
    /\ state.genre_pages = Before.genre_pages
    /\ state.genre_pages["Tragedy"] > 0
    /\ state.genre_pages["Adventure"] = 0
    /\ state.notoriety["Tragedy"] > Before.notoriety["Tragedy"]

(* C28 (as stated, last sentence): no postscript hunt changes genre_pages. *)
C28_PagesNeverChange ==
    PostscriptHunted => state.genre_pages = Before.genre_pages

(* What _perform_hunt requires of state s for a hunt with tier t; the      *)
(* consumable CC is no part of it.                                         *)
HuntAllowed(s, t) ==
    /\ s.chapter_position # 0
    /\ ~(/\ s.pending_chapter_choices # << >>
          /\ ~s.pending_choices_locked
          /\ s.chapter_position <= TOTAL_CHAPTERS)
    /\ TargetLength(s) # None
    /\ TargetLength(s) # Some(0)
    /\ s.resources[CHEESE_HUNT_RULES[t].resource] > 0

(* C29: with the CC toggle on, every accepted hunt takes exactly 1 CC,     *)
(* with no floor check (a hunt with CC <= 0 is accepted all the same and   *)
(* leaves CC negative), and its loot is scaled by 2; with the toggle off   *)
(* CC is not spent and the loot is scaled by 1.                            *)
C29_ComboMultiplier ==
    [][/\ _cc_multiplier = 2
       /\ (state' # state \/ cc_enabled' # cc_enabled) =>
             \A t \in CheeseTypes :
                _perform_hunt(App', Some(t), CHOOSE rnd \in HuntRnds(state') : TRUE).last.commits =
                   IF HuntAllowed(state', t) THEN 1 ELSE 0
       /\ (last'.op = "perform_hunt" /\ last'.commits = 1) =>
             /\ HuntAllowed(state, last'.arg.key)
             /\ cc_enabled' = cc_enabled
             /\ \/ /\ state.chapter_position \in 1..TOTAL_CHAPTERS
                   /\ HuntDeltaIs(state, state', CHEESE_HUNT_RULES[last'.arg.key], cc_enabled,
                                  CHEESE_HUNT_RULES[last'.arg.key].chapter_enemy)
                \/ /\ state.chapter_position = 7
                   /\ HuntDeltaIs(state, state', CHEESE_HUNT_RULES[last'.arg.key], cc_enabled,
                                  CHEESE_HUNT_RULES[last'.arg.key].post_enemy)
                \/ /\ state.chapter_position = 7
                   /\ HuntDeltaIs(state, state', CHEESE_HUNT_RULES[last'.arg.key], cc_enabled,
                                  CHEESE_HUNT_RULES[last'.arg.key].post_fantasy_enemy)
             /\ state'.consumables["CC"] =
                   state.consumables["CC"] - (IF cc_enabled THEN Amt(1) ELSE 0)]_vars

(* With the toggle on and no CC held, a T1 hunt has been accepted, has     *)
(* left CC at -1 and has brought twice the T1 mouse's Thread.              *)
C29_NegativeCC ==
    /\ last.op = "perform_hunt" /\ last.commits = 1 /\ last.arg.key = "T1"
    /\ cc_enabled
    /\ Before.chapter_position \in 1..TOTAL_CHAPTERS
    /\ Before.consumables["CC"] = 0
    /\ state.consumables["CC"] = 0 - Amt(1)
    /\ state.resources["Thread"] - Before.resources["Thread"] = 2 * 154

(* The hunts that remain in the current phase of state s.                  *)
Remaining(s) ==
    (IF TargetLength(s) = None THEN 0 ELSE TargetLength(s)[1]) - s.current_chapter_progress

(* App a after k calls of _undo.                                           *)
RECURSIVE UndoTimes(_, _)
UndoTimes(a, k) == IF k = 0 THEN a ELSE UndoTimes(_undo(a), k - 1)

(* From before to after, one hunt with the cheese has been made.           *)
OneHunt(before, after, cheese) ==
    /\ after.total_hunts = before.total_hunts + 1
    /\ after.resources[cheese] = before.resources[cheese] - Amt(1)
    /\ after.current_chapter_progress \in {before.current_chapter_progress + 1, 0}

(* The history of app b, the states from the oldest to the current one.    *)
Timeline(b) == Append(b.undo, b.state)

(* C30: a batch hunt is rejected with no change unless the tier's cheese   *)
(* is at least 10 and at least 10 hunts remain in the phase; an accepted   *)
(* batch makes 10 hunts, each its own commit: the history grows by 10      *)
(* entries, consecutive entries differ by one hunt, the progress has       *)
(* advanced by 10 (and is reset only if the 10th hunt completes the        *)
(* phase), the cheese is down by exactly 10, and k undos (k <= 10) lead    *)
(* back exactly k hunts.                                                   *)
C30_BatchHunt ==
    [][last'.op = "batch_hunt" =>
          /\ last'.commits = 0 =>
                (state' = state /\ undo' = undo /\ redo' = redo)
          /\ last'.commits # 0 =>
                /\ last'.commits = 10
                /\ state.resources[CHEESE_HUNT_RULES[last'.arg.key].resource] >= Amt(10)
                /\ Remaining(state) >= 10
                /\ Len(undo') = Len(undo) + 10
                /\ SubSeq(undo', 1, Len(undo) + 1) = Append(undo, state)
                /\ redo' = << >>
                /\ \A i \in 1..10 :
                      OneHunt(Timeline(App')[Len(undo) + i], Timeline(App')[Len(undo) + i + 1],
                              CHEESE_HUNT_RULES[last'.arg.key].resource)
                /\ \A i \in 1..9 :
                      undo'[Len(undo) + i + 1].current_chapter_progress =
                         state.current_chapter_progress + i
                /\ state'.current_chapter_progress =
                      IF Remaining(state) = 10 THEN 0 ELSE state.current_chapter_progress + 10
                /\ state'.total_hunts = state.total_hunts + 10
                /\ state'.resources[CHEESE_HUNT_RULES[last'.arg.key].resource] =
                      state.resources[CHEESE_HUNT_RULES[last'.arg.key].resource] - Amt(10)
                /\ \A k \in 1..10 :
                      /\ UndoTimes(App', k).state = undo'[Len(undo') - k + 1]
                      /\ UndoTimes(App', k).state.total_hunts = state'.total_hunts - k
                      /\ Len(UndoTimes(App', k).redo) = k
                /\ UndoTimes(App', 10).state = state
          /\ \A t \in CheeseTypes :
                (state.resources[CHEESE_HUNT_RULES[t].resource] < Amt(10) \/ Remaining(state) < 10) =>
                   \A rnds \in BatchRnds(state) :
                      /\ _batch_hunt(App, t, rnds).last.commits = 0
                      /\ _batch_hunt(App, t, rnds).state = state
                      /\ _batch_hunt(App, t, rnds).undo = undo]_vars

(* A batch in a chapter of length 20 has made ten hunts in ten commits,    *)
(* and the chapter goes on.                                                *)
C30_TenCommits ==
    /\ last.op = "batch_hunt" /\ last.commits = 10 /\ last.arg.key = "T1"
    /\ Len(undo) >= 10
    /\ state.current_chapter_length = Some(20)
    /\ state.current_chapter_progress = 10
    /\ undo[Len(undo) - 9].current_chapter_progress = 0
    /\ undo[Len(undo) - 4].current_chapter_progress = 5
    /\ state.resources["T1 cheese"] = undo[Len(undo) - 9].resources["T1 cheese"] - Amt(10)

(* The state with every notoriety brought into 0..200.                     *)
NotorietyClamped(s) ==
    [s EXCEPT !.notoriety = [g \in DOMAIN s.notoriety |->
                               Max2(0, Min2(200, s.notoriety[g]))]]

(* C31: loading the document produced by saving a state yields that state  *)
(* field for field, out-of-range notoriety clamped into 0..200, and the     *)
(* load is one undoable commit: the state before it goes on the undo stack *)
(* and the redo stack is emptied.  The first two conjuncts say it of the   *)
(* document of every state the application is in, the third of a load that *)
(* follows a save.                                                         *)
C31_SaveLoadRoundTrip ==
    [][/\ from_dict(to_dict(state)) = NotorietyClamped(state)
       /\ from_dict(to_dict(state')) = NotorietyClamped(state')
       /\ (last.op = "save_snapshot" /\ last'.op = "load_snapshot") =>
             /\ last'.commits = 1
             /\ state' = NotorietyClamped(state)
             /\ undo' = Append(undo, state)
             /\ redo' = << >>]_vars

(* A postscript saved and loaded back: the loaded state is the saved one,  *)
(* which is also the state the undo stack returns to.                      *)
C31_SnapshotReloaded ==
    /\ last.op = "load_snapshot"
    /\ last.commits = 1
    /\ file = Some(to_dict(state))
    /\ state.chapter_position = 7
    /\ undo # << >>
    /\ Before = state

(* The pages of the first n genres of the fixed genre order (base genres,  *)
(* then Fantasy).                                                          *)
RECURSIVE Cumulative(_, _)
Cumulative(s, n) ==
    IF n = 0 THEN 0
    ELSE Cumulative(s, n - 1) + Max2(0, s.genre_pages[AllGenresSeq[n]])

(* The places in the genre order of the genres with pages whose cumulative *)
(* weight meets or exceeds the draw, which is the fraction u / DrawDen of  *)
(* the total weight.                                                       *)
Reaching(s, u) ==
    {n \in 1..Len(AllGenresSeq) :
       /\ s.genre_pages[AllGenresSeq[n]] > 0
       /\ Cumulative(s, Len(AllGenresSeq)) * u <= Cumulative(s, n) * DrawDen}

FirstReaching(s, u) ==
    AllGenresSeq[CHOOSE n \in Reaching(s, u) : \A m \in Reaching(s, u) : n <= m]

LastReaching(s, u) ==
    AllGenresSeq[CHOOSE n \in Reaching(s, u) : \A m \in Reaching(s, u) : m <= n]

(* The notoriety after a postscript hunt with the tier has selected genre. *)
NotorietyAfter(s, tier, genre) ==
    PostscriptLooted([s |-> s, results |-> << >>], CHEESE_HUNT_RULES[tier], genre, "").s.notoriety

(* C32 (amended): in the weighted postscript genre draw over the           *)
(* positive-weight genres taken in fixed order (base genres then Fantasy), *)
(* for a draw value d the selected genre is the FIRST genre whose          *)
(* cumulative weight meets or exceeds d, and the result is a function of d *)
(* and the genre_pages map.  (Wherever a postscript hunt is made with      *)
(* pages held: the selection under every draw, and the hunt's notoriety    *)
(* change, which is that of the genre so selected for one of the draws.)   *)
C32_FirstReachingDrawn ==
    [][(/\ last'.op = "perform_hunt" /\ last'.commits = 1
        /\ state.chapter_position = 7 /\ PagedGenres(state) # {}) =>
          /\ \A u \in 0..DrawDen :
                /\ Reaching(state, u) # {}
                /\ _select_genre_by_pages(state, [NoRnd EXCEPT !.u = u])
                      = FirstReaching(state, u)
                /\ _select_genre_by_pages(
                         [FreshState EXCEPT !.genre_pages = state.genre_pages],
                         [NoRnd EXCEPT !.u = u])
                      = _select_genre_by_pages(state, [NoRnd EXCEPT !.u = u])
          /\ \E u \in 0..DrawDen :
                state'.notoriety
                  = NotorietyAfter(state, last'.arg.key, FirstReaching(state, u))]_vars

(* A postscript hunt has drawn Tragedy, the second of three genres with    *)
(* pages: Fantasy, the last of them, has pages too.                        *)
C32_MiddleGenreDrawn ==
    /\ PostscriptHunted
    /\ Before.genre_pages["Romance"] > 0
    /\ Before.genre_pages["Tragedy"] > 0
    /\ Before.genre_pages["Fantasy"] > 0
    /\ state.notoriety["Tragedy"] > Before.notoriety["Tragedy"]

(* C32 (as stated): for a draw value d the selected genre is the last      *)
(* genre whose cumulative weight meets or exceeds d.                       *)
C32_LastReachingDrawn ==
    (state.chapter_position = 7 /\ PagedGenres(state) # {}) =>
       \A u \in 0..DrawDen :
          _select_genre_by_pages(state, [NoRnd EXCEPT !.u = u]) = LastReaching(state, u)

HuntNames == {"perform_hunt", "batch_hunt"}

(* C33: chapter_position always lies in 0..7 and, undo and redo apart (no  *)
(* snapshot is loaded), changes only along 0 -> 1 by a run start,          *)
(* p -> p + 1 for 1 <= p <= 5 by choosing the next chapter, 6 -> 7 by the  *)
(* hunt that completes the last chapter and 7 -> 0 by the hunt that        *)
(* finishes the postscript: no chapter is skipped or re-entered and a run  *)
(* is left only through the postscript.                                    *)
C33_ChapterPath ==
    [][/\ state.chapter_position \in 0..7
       /\ state'.chapter_position \in 0..7
       /\ (/\ last'.op \notin {"undo", "redo"}
           /\ state'.chapter_position # state.chapter_position) =>
             \/ /\ state.chapter_position = 0
                /\ state'.chapter_position = 1
                /\ last'.op \in StartNames
             \/ /\ state.chapter_position \in 1..5
                /\ state'.chapter_position = state.chapter_position + 1
                /\ last'.op = "choose_next_chapter"
             \/ /\ state.chapter_position = 6
                /\ state'.chapter_position = 7
                /\ last'.op \in HuntNames
                /\ state.current_chapter_length # None
                /\ state.current_chapter_progress + last'.commits
                      = state.current_chapter_length[1]
             \/ /\ state.chapter_position = 7
                /\ state'.chapter_position = 0
                /\ last'.op \in HuntNames
                /\ state.current_chapter_progress + last'.commits
                      = state.postscript_length]_vars

(* The last chapter has just been completed by a hunt, and the run is in   *)
(* the postscript.                                                         *)
C33_LastChapterLeft ==
    /\ last.op = "perform_hunt"
    /\ last.commits = 1
    /\ Before.chapter_position = 6
    /\ state.chapter_position = 7

(* C34 (as stated): from the fresh state, with only craft, hunt,           *)
(* batch-hunt, start-run, choose, reroll and extend operations, every      *)
(* entry of resources stays at 0 or more.                                  *)
C34_ResourcesStayNonNegative ==
    \A k \in ResourceSet : state.resources[k] >= 0

(* The first operation on the fresh application crafted T2 cheese from     *)
(* nothing: T1 cheese and Thread are below 0.                              *)
C34_CraftedFromNothing ==
    /\ last.op = "craft"
    /\ last.commits = 1
    /\ Before = FreshState
    /\ state.resources["T2 cheese"] = Amt(2)
    /\ state.resources["T1 cheese"] = 0 - Amt(12)
    /\ state.resources["Thread"] = 0 - Amt(24)

(* C35 (as stated): a resource or consumable field edit whose value is     *)
(* non-numeric or non-positive is rejected, so the edit that was committed *)
(* last had a numeric value above 0.                                       *)
C35_NonPositiveEditRejected ==
    (/\ last.op = "entry_changed"
     /\ last.commits = 1
     /\ last.arg.cat \in {"resources", "consumables"}) =>
       /\ _parse_float(last.arg.text) # None
       /\ _parse_float(last.arg.text)[1] > 0

(* The mallets entry was set to -1 and the edit was committed: the state   *)
(* holds -1 mallets and the state before is on the undo stack.             *)
C35_NegativeEditCommitted ==
    /\ last.op = "entry_changed"
    /\ last.commits = 1
    /\ last.arg.key = "mallets"
    /\ last.arg.text = "-1"
    /\ Before.resources["mallets"] >= 0
    /\ state.resources["mallets"] = 0 - Amt(1)

(* C36: without snapshot load, whenever pending_choices_locked is true     *)
(* there are exactly 3 pending choices, the chapter is one of 1..5 and it  *)
(* has a length and a genre; so the lock is never on while idle, in        *)
(* chapter 6 or in the postscript.                                         *)
C36_LockOnlyInOpenChapter ==
    state.pending_choices_locked =>
       /\ Len(state.pending_chapter_choices) = 3
       /\ state.chapter_position \in 1..(TOTAL_CHAPTERS - 1)
       /\ state.current_chapter_length # None
       /\ state.current_chapter_genre # None
       /\ state.chapter_position \notin {0, TOTAL_CHAPTERS, 7}

(* The second chapter has just been chosen: its three choices are locked.  *)
C36_SecondChapterLocked ==
    /\ last.op = "choose_next_chapter"
    /\ last.commits = 1
    /\ state.chapter_position = 2
    /\ state.pending_choices_locked
    /\ Len(state.pending_chapter_choices) = 3
    /\ ~Before.pending_choices_locked

(* The run is in a numbered chapter position with no chapter under way.    *)
BetweenChapters(s) ==
    s.chapter_position \in 1..TOTAL_CHAPTERS /\ s.current_chapter_length = None

(* Handler result r leaves the application a as it was, history included.  *)
LeavesAlone(a, r) ==
    r.last.commits = 0 /\ r.state = a.state /\ r.undo = a.undo /\ r.redo = a.redo

(* One of the draws a handler can consume in state s.                      *)
SomeRnd(s) == CHOOSE rnd \in HuntRnds(s) \cup SeedRnds : TRUE

(* Handler result r is a refused hunt: the choice comes first.             *)
HuntRefused(a, r) == LeavesAlone(a, r) /\ r.last.msg = "Select chapter"

(* Handler result r is a choice taken at no cost: the next chapter is      *)
(* begun and no resource or consumable has changed.                        *)
ChoiceFree(a, r) ==
    /\ r.last.commits = 1
    /\ r.state.resources = a.state.resources
    /\ r.state.consumables = a.state.consumables
    /\ r.state.chapter_position = a.state.chapter_position + 1

(* C37: without snapshot load a run is never stuck between chapters.  In   *)
(* a state with 1 <= chapter_position <= 6 and no current chapter length   *)
(* there are 3 unlocked pending choices, a hunt is rejected (choose the    *)
(* next chapter first) and choosing any of the three is accepted and costs *)
(* no resource or consumable; and whenever a chapter length is defined or  *)
(* the phase is the postscript, a hunt with a tier of which 1 cheese is    *)
(* held is accepted.                                                       *)
C37_NeverStuckBetweenChapters ==
    /\ BetweenChapters(state) =>
          /\ Len(state.pending_chapter_choices) = 3
          /\ ~state.pending_choices_locked
          /\ \A t \in CheeseTypes :
                HuntRefused(App, _perform_hunt(App, Some(t), SomeRnd(state)))
          /\ \A i \in 1..3 :
                ChoiceFree(App, _choose_next_chapter(
                                   App, Some(state.pending_chapter_choices[i]),
                                   SomeRnd(state)))
    /\ (state.current_chapter_length # None \/ state.chapter_position = 7) =>
          \A t \in CheeseTypes :
             state.resources[CHEESE_HUNT_RULES[t].resource] >= Amt(1) =>
                _perform_hunt(App, Some(t), SomeRnd(state)).last.commits = 1

(* Between chapters a hunt has just been rejected, and the three choices   *)
(* are there to take.                                                      *)
C37_HuntRejectedBetweenChapters ==
    /\ last.op = "perform_hunt"
    /\ last.commits = 0
    /\ last.msg = "Select chapter"
    /\ BetweenChapters(state)
    /\ Len(state.pending_chapter_choices) = 3
    /\ \E t \in CheeseTypes : state.resources[CHEESE_HUNT_RULES[t].resource] >= Amt(1)

(* The progress of state s is within its phase's range.                    *)
ProgressInRange(s) ==
    /\ (s.chapter_position = 0 \/ BetweenChapters(s)) => s.current_chapter_progress = 0
    /\ (s.chapter_position \in 1..TOTAL_CHAPTERS /\ s.current_chapter_length # None) =>
          /\ 0 <= s.current_chapter_progress
          /\ s.current_chapter_progress < s.current_chapter_length[1]
    /\ s.chapter_position = 7 =>
          /\ 0 <= s.current_chapter_progress
          /\ s.current_chapter_progress < s.postscript_length

(* C38: without snapshot load, in every committed state (the current one   *)
(* and those on the undo and redo stacks) current_chapter_progress is 0    *)
(* when idle or awaiting a chapter choice, at least 0 and below            *)
(* current_chapter_length in an active numbered chapter, and at least 0    *)
(* and below postscript_length in the postscript: a state with progress at *)
(* or above its target is never committed.                                 *)
C38_ProgressBelowTarget ==
    /\ ProgressInRange(state)
    /\ \A i \in 1..Len(undo) : ProgressInRange(undo[i])
    /\ \A i \in 1..Len(redo) : ProgressInRange(redo[i])

(* With the CC toggle off, a batch of ten hunts has completed a chapter of *)
(* length 10: the state before its last hunt had progress 9, the committed *)
(* one awaits a choice with progress 0.                                    *)
C38_BatchCompletedChapter ==
    /\ ~cc_enabled
    /\ last.op = "batch_hunt"
    /\ last.commits = 10
    /\ Before.current_chapter_length = Some(10)
    /\ Before.current_chapter_progress = 9
    /\ BetweenChapters(state)
    /\ state.current_chapter_progress = 0

(* Fantasy is the current chapter's genre or has pages in state s.         *)
FantasyInPlay(s) ==
    \/ s.current_chapter_genre = Some(FANTASY_GENRE)
    \/ s.genre_pages[FANTASY_GENRE] > 0

(* C39: without snapshot load, Fantasy is the current chapter genre or has *)
(* pages only if run_fantasy_available is true; hence a postscript hunt in *)
(* a run started without the bonus genre cannot draw Fantasy, and it       *)
(* applies neither the Ultimate MythWeaver's loot (no Diamond is gained)   *)
(* nor the flat 20-point notoriety reduction.                              *)
C39_FantasyOnlyWhenAvailable ==
    [][/\ FantasyInPlay(state) => state.run_fantasy_available
       /\ FantasyInPlay(state') => state'.run_fantasy_available
       /\ (/\ last'.op = "perform_hunt" /\ last'.commits = 1
           /\ state.chapter_position = 7
           /\ ~state.run_fantasy_available) =>
             /\ \A rnd \in HuntRnds(state) :
                   _select_genre_by_pages(state, rnd) # FANTASY_GENRE
             /\ ~HuntDeltaIs(state, state', CHEESE_HUNT_RULES[last'.arg.key], cc_enabled,
                             CHEESE_HUNT_RULES[last'.arg.key].post_fantasy_enemy)
             /\ HuntDeltaIs(state, state', CHEESE_HUNT_RULES[last'.arg.key], cc_enabled,
                            CHEESE_HUNT_RULES[last'.arg.key].post_enemy)
             /\ state'.total_diamonds_gain = state.total_diamonds_gain
             /\ ~AllDropped(state, state')]_vars

(* A postscript hunt in a run started without the bonus genre: Fantasy has *)
(* no pages, Comedy has, and a base genre's notoriety has risen.           *)
C39_PlainPostscriptHunted ==
    /\ PostscriptHunted
    /\ ~Before.run_fantasy_available
    /\ Before.genre_pages[FANTASY_GENRE] = 0
    /\ Before.genre_pages["Comedy"] > 0
    /\ \E g \in BaseGenreSet : state.notoriety[g] > Before.notoriety[g]

---------------------------------------------------------------------------
(* A run played to its end.  Hunts and chapter choices are not counted     *)
(* against the budget of handler calls (the run itself bounds them: it     *)
(* ends after at most 6 chapters of at most 30 hunts and a postscript of   *)
(* at most 13); rerolls and extensions are.  Cheese does not run out: the  *)
(* checkpoints hold more T1 cheese than the rest of the run can take.      *)
(* Each hunt uses T1 cheese and the draw RunDraw picks for its state; a    *)
(* choice takes the first button (or a stale one when none is shown).      *)

(* Chapter 5, one hunt short of its length.                                *)
FifthChapterApp ==
    RunOps(BegunApp, ChapterOps \o ChapterOps \o ChapterOps \o ChapterOps \o NineHunts, 1)

RunCheckpoints == {FifthChapterApp, PostscriptApp, PlainPostscriptApp}

InitRun == \E a \in RunCheckpoints : Starts(a, MaxSteps - CheckpointSteps)

RunDraw(st) == [NoRnd EXCEPT !.u = st.current_chapter_progress % (DrawDen + 1)]

RunChoices(st) ==
    IF st.pending_chapter_choices = << >> THEN {None}
    ELSE {Some(st.pending_chapter_choices[1])}

(* A handler call outside the budget.                                      *)
Advances(result) ==
    /\ file' = file
    /\ steps' = steps
    /\ \E n \in {result} :
          /\ state' = n.state
          /\ undo' = n.undo
          /\ redo' = n.redo
          /\ quantity_var' = n.quantity_var
          /\ cc_enabled' = n.cc_enabled
          /\ last' = n.last

RunHunt == Advances(_perform_hunt(App, Some("T1"), RunDraw(state)))

RunChoose ==
    \E choice \in RunChoices(state) : Advances(_choose_next_chapter(App, choice, NoRnd))

NextRun ==
    \/ RunHunt
    \/ RunChoose
    \/ RerollChapterChoices
    \/ ExtendPostscript

(* Weak fairness of the accepted hunt, written out: a hunt is accepted     *)
(* exactly in the states HuntAllowed describes, so either the hunt is      *)
(* refused again and again or it is made again and again.                  *)
HuntFair ==
    \/ []<>(~HuntAllowed(state, "T1"))
    \/ []<><<RunHunt /\ last'.commits = 1>>_vars

SpecRun == InitRun /\ [][NextRun]_vars /\ HuntFair /\ WF_vars(RunChoose)

(* C40: every started run terminates.  With cheese that does not run out   *)
(* and no undo, redo, edit or load, under weak fairness of hunting and of  *)
(* choosing the next chapter, every state with chapter_position # 0 is     *)
(* eventually followed by a state with chapter_position = 0, however       *)
(* rerolls and postscript extensions are interleaved.                      *)
C40_RunTerminates ==
    (state.chapter_position # 0) ~> (state.chapter_position = 0)

(* The run that was in chapter 5 has ended: its postscript was extended to *)
(* 13 hunts, a reroll was paid for on the way, and the last hunt returned  *)
(* it to position 0.                                                       *)
C40_RunEnded ==
    /\ last.op = "perform_hunt"
    /\ last.commits = 1
    /\ state.chapter_position = 0
    /\ Before.chapter_position = 7
    /\ Before.postscript_extended
    /\ Before.current_chapter_progress = 12
    /\ \E i \in 1..Len(undo) : undo[i].chapter_position = 5
    /\ state.total_mallets_spent = FifthChapterApp.state.total_mallets_spent + 33

=============================================================================
